---- MODULE Spec2Model ----
(***************************************************************************)
(* Elastic stiffness representation of polycrystal: the StiffnessMatrix    *)
(* component-system converter, the symmetry moduli handlers that own one,  *)
(* and the SingleCrystal that owns a handler.                              *)
(*                                                                         *)
(* Numbers.  The code computes in floating point with the factors 1, 2,    *)
(* 1/2, sqrt(2) and 1/sqrt(2).  The model computes exactly in the field    *)
(* Q(sqrt 2): the tuple <<a, b, d>> is the number (a + b*sqrt(2)) / d with *)
(* d > 0 and gcd(a, b, d) = 1, so that equal numbers are equal tuples.     *)
(* Floating-point rounding is not modelled.                                *)
(*                                                                         *)
(* Python.  A value handed to a setter is a record [t, v]: an Enum member  *)
(* (t = "enum", v its name), a str or an int.  The abstract declarations   *)
(* of BaseModuli carry no behaviour: a handler has exactly the attributes  *)
(* its own class assigns or defines.                                       *)
(***************************************************************************)
EXTENDS Integers, Sequences, FiniteSets, TLC

VARIABLES kind, stiffness, moduli, crystal, origin, last, symmetries, registry, groups

vars == <<kind, stiffness, moduli, crystal, origin, last, symmetries, registry, groups>>

----------------------------------------------------------------------------
(* Exact arithmetic in Q(sqrt 2) *)

Abs(x) == IF x < 0 THEN -x ELSE x

RECURSIVE GCD(_, _)
GCD(m, n) == IF n = 0 THEN m ELSE CHOOSE g \in {GCD(n, r) : r \in {m % n}} : TRUE

\* The canonical tuple of (a + b*sqrt2)/d, d # 0.  (Operands are bound
\* through singleton sets so that each is evaluated once.)
Q2(a, b, d) ==
    CHOOSE q \in {<<x \div g, y \div g, z \div g>> :
                     g \in {GCD(GCD(Abs(x), Abs(y)), Abs(z)) * (IF z < 0 THEN -1 ELSE 1) :
                               x \in {a}, y \in {b}, z \in {d}},
                     x \in {a}, y \in {b}, z \in {d}} : TRUE

Rat(n, d) == Q2(n, 0, d)
Num(n) == <<n, 0, 1>>
Zero == <<0, 0, 1>>
One == <<1, 0, 1>>
Two == <<2, 0, 1>>
Half == <<1, 0, 2>>

Add(x, y) ==
    CHOOSE q \in {IF u = Zero THEN v
                  ELSE IF v = Zero THEN u
                  ELSE Q2(u[1] * v[3] + v[1] * u[3], u[2] * v[3] + v[2] * u[3], u[3] * v[3]) :
                     u \in {x}, v \in {y}} : TRUE
Neg(x) == CHOOSE q \in {<<-u[1], -u[2], u[3]>> : u \in {x}} : TRUE
Sub(x, y) == Add(x, Neg(y))
Mul(x, y) ==
    CHOOSE q \in {IF u = Zero \/ v = Zero THEN Zero
                  ELSE IF u = One THEN v
                  ELSE IF v = One THEN u
                  ELSE Q2(u[1] * v[1] + 2 * u[2] * v[2], u[1] * v[2] + u[2] * v[1],
                          u[3] * v[3]) :
                     u \in {x}, v \in {y}} : TRUE
\* 1/x for x # 0: the conjugate over the norm a^2 - 2 b^2.
Inv(x) ==
    CHOOSE q \in {Q2(u[1] * u[3], -(u[2] * u[3]), u[1] * u[1] - 2 * u[2] * u[2]) :
                     u \in {x}} : TRUE
Div(x, y) == Mul(x, Inv(y))

\* F(e), with e evaluated once and handed to F as a value.
Once(F(_), e) == CHOOSE y \in {F(x) : x \in {e}} : TRUE

\* Eager 6-vectors and 6x6 matrices (tuples of tuples).
Vec6(F(_)) == <<F(1), F(2), F(3), F(4), F(5), F(6)>>
Mat6(F(_, _)) ==
    LET R(i) == <<F(i, 1), F(i, 2), F(i, 3), F(i, 4), F(i, 5), F(i, 6)>>
    IN  <<R(1), R(2), R(3), R(4), R(5), R(6)>>

----------------------------------------------------------------------------
(* stiffness_matrix.py *)

DEFAULT_UNITS == "GPa"

\* Python values: an Enum member, a str, an int (written as its digits).
Member(n) == [t |-> "enum", v |-> n]
StrVal(s) == [t |-> "str", v |-> s]
IntVal(i) == [t |-> "int", v |-> i]

VOIGT_GAMMA == Member("VOIGT_GAMMA")
VOIGT_EPSILON == Member("VOIGT_EPSILON")
MANDEL == Member("MANDEL")

\* MatrixComponentSystem: the members, in definition order.
MatrixComponentSystem == {VOIGT_GAMMA, VOIGT_EPSILON, MANDEL}

\* The value auto() gives each member.
EnumValue(s) == CASE s = VOIGT_GAMMA -> IntVal("1")
                  [] s = VOIGT_EPSILON -> IntVal("2")
                  [] s = MANDEL -> IntVal("3")

\* `v in MatrixComponentSystem` (EnumType.__contains__ as of Python 3.12, the
\* version on which a str is tested without a TypeError): true of a member
\* and of a member's value.
InEnum(v) ==
    \/ v \in MatrixComponentSystem
    \/ \E s \in MatrixComponentSystem : EnumValue(s) = v

_s2 == <<0, 1, 1>>

\* _Scales(up_right, low_left, low_right)
_Scales(ur, ll, lr) == [up_right |-> ur, low_left |-> ll, low_right |-> lr]
ScalesOf(F(_)) == _Scales(F("up_right"), F("low_left"), F("low_right"))

vg_to_ve == _Scales(Two, One, Two)
vg_to_md == _Scales(_s2, _s2, Two)

None == [none |-> TRUE]

\* The dict literal, entry by entry; a later entry with the same key
\* replaces an earlier one.
scales_items ==
    LET vg == VOIGT_GAMMA
        ve == VOIGT_EPSILON
        md == MANDEL
        InvMd(f) == Div(One, vg_to_md[f])
        InvVe(f) == Div(One, vg_to_ve[f])
        MdOverVe(f) == Div(vg_to_md[f], vg_to_ve[f])
        VeOverMd(f) == Div(vg_to_ve[f], vg_to_md[f])
    IN  << <<vg, vg, None>>,
           <<vg, ve, vg_to_ve>>,
           <<vg, md, vg_to_md>>,
           <<ve, ve, None>>,
           <<ve, vg, ScalesOf(InvMd)>>,
           <<ve, vg, ScalesOf(InvVe)>>,
           <<ve, md, ScalesOf(MdOverVe)>>,
           <<md, md, None>>,
           <<md, vg, ScalesOf(InvMd)>>,
           <<md, ve, ScalesOf(VeOverMd)>> >>

HasKey(from, to) ==
    \E k \in 1..Len(scales_items) :
        scales_items[k][1] = from /\ scales_items[k][2] = to

\* A dict whose first entry for a key is the one kept.
scales_dict_first(from, to) ==
    LET ks == {k \in 1..Len(scales_items) :
                  scales_items[k][1] = from /\ scales_items[k][2] = to}
        k == CHOOSE x \in ks : \A y \in ks : x <= y
    IN  scales_items[k][3]

\* scales_dict[(from, to)], for a key of the dict.
scales_dict(from, to) ==
    LET ks == {k \in 1..Len(scales_items) :
                  scales_items[k][1] = from /\ scales_items[k][2] = to}
        k == CHOOSE x \in ks : \A y \in ks : y <= x
    IN  scales_items[k][3]

\* np.triu_indices(6) and np.tril_indices(6, k=-1): the <<row, column>> pairs
\* of the upper triangle and of the strict lower triangle, row by row.
AllIndices == [k \in 1..36 |-> <<((k - 1) \div 6) + 1, ((k - 1) % 6) + 1>>]
IsUpper(p) == p[1] <= p[2]
IsLower(p) == p[1] > p[2]
_UT_INDICES == SelectSeq(AllIndices, IsUpper)
_LT_INDICES == SelectSeq(AllIndices, IsLower)
\* For each strict-lower position, the (0-based) place in cij of its mirror.
_LT_CIJ == <<1, 2, 7, 3, 8, 12, 4, 9, 13, 16, 5, 10, 14, 17, 19>>

IndexIn(seq, p) == CHOOSE k \in 1..Len(seq) : seq[k] = p

\* A _fill_cij that mirrors the upper triangle in every system.
_fill_cij_mirrored(cij, system) ==
    LET Filled(c, i, j) ==
            IF i <= j THEN c[IndexIn(_UT_INDICES, <<i, j>>)]
            ELSE c[_LT_CIJ[IndexIn(_LT_INDICES, <<i, j>>)] + 1]
        Mirrored(c) == Mat6(LAMBDA i, j : Filled(c, i, j))
    IN  Once(Mirrored, cij)

\* StiffnessMatrix._fill_cij: scatter the 21 values into the upper triangle,
\* mirror them into the lower one, and under VOIGT_EPSILON set the lower-left
\* block to one half of the upper-right block.
_fill_cij(cij, system) ==
    LET Filled(c, i, j) ==
            IF i <= j THEN c[IndexIn(_UT_INDICES, <<i, j>>)]
            ELSE c[_LT_CIJ[IndexIn(_LT_INDICES, <<i, j>>)] + 1]
        Corrected(mat, i, j) ==
            IF system = VOIGT_EPSILON /\ i \in 4..6 /\ j \in 1..3
            THEN Mul(Half, mat[j][i])
            ELSE mat[i][j]
        Mirrored(c) == Mat6(LAMBDA i, j : Filled(c, i, j))
        Halved(mat) == Mat6(LAMBDA i, j : Corrected(mat, i, j))
    IN  Once(Halved, Once(Mirrored, cij))

\* StiffnessMatrix.__init__ (cij of length 21, system a member).
StiffnessMatrix(cij, system, units) ==
    [system |-> system, units |-> units, matrix |-> _fill_cij(cij, system)]

\* A rescale that treats the two off-diagonal blocks alike.
_rescale_matrix_offdiag(mat, scale) ==
    LET Scaled(i, j) ==
            IF i \in 1..3 /\ j \in 4..6 THEN Mul(mat[i][j], scale.up_right)
            ELSE IF i \in 4..6 /\ j \in 1..3 THEN Mul(mat[i][j], scale.up_right)
            ELSE IF i \in 4..6 /\ j \in 4..6 THEN Mul(mat[i][j], scale.low_right)
            ELSE mat[i][j]
    IN  Mat6(Scaled)

\* StiffnessMatrix._rescale_matrix
_rescale_matrix(mat, scale) ==
    LET Scaled(i, j) ==
            IF i \in 1..3 /\ j \in 4..6 THEN Mul(mat[i][j], scale.up_right)
            ELSE IF i \in 4..6 /\ j \in 1..3 THEN Mul(mat[i][j], scale.low_left)
            ELSE IF i \in 4..6 /\ j \in 4..6 THEN Mul(mat[i][j], scale.low_right)
            ELSE mat[i][j]
    IN  Mat6(Scaled)

\* The outcome of an operation on an object: the exception raised ("none" if
\* it returned) and the object afterwards.
Outcome(raised, obj) == [raised |-> raised, obj |-> obj]

\* StiffnessMatrix.system setter
StiffnessSetSystem(sm, v) ==
    IF ~InEnum(v) THEN Outcome("ValueError", sm)
    ELSE IF ~HasKey(sm.system, v) THEN Outcome("KeyError", sm)
    ELSE LET Convert(scale) ==
                 IF scale # None
                 THEN Outcome("none",
                              [sm EXCEPT !.matrix = _rescale_matrix(sm.matrix, scale),
                                         !.system = v])
                 ELSE Outcome("none", sm)
         IN  Once(Convert, scales_dict(sm.system, v))

\* The size of a unit of stress in MPa (pint's registry).
UnitSize(u) == CASE u = "GPa" -> Num(1000)
                 [] u = "MPa" -> One

\* Quantity.ito: the magnitudes in the new unit.
Ito(mat, from, to) ==
    LET Conv(f) == Mat6(LAMBDA i, j : Mul(mat[i][j], f))
    IN  Once(Conv, Div(UnitSize(from), UnitSize(to)))

\* A units setter that converts nothing.
StiffnessSetUnits_tag(sm, u) == [sm EXCEPT !.units = u]

\* StiffnessMatrix.units setter
StiffnessSetUnits(sm, u) ==
    [sm EXCEPT !.matrix = Ito(sm.matrix, sm.units, u), !.units = u]

----------------------------------------------------------------------------
(* base_moduli.py, isotropic.py, cubic.py, hexagonal.py, triclinic.py *)

\* A handler is [cls, system, attrs, units]: attrs are the moduli its class
\* assigns; units is the plain attribute a SingleCrystal sets on it ("unset"
\* until then).  Its StiffnessMatrix is kept beside it.
Handler(cls, system, attrs) ==
    [cls |-> cls, system |-> system, attrs |-> attrs, units |-> "unset"]

NoObject == [cls |-> "none"]

\* BaseModuli._high_symmetry_matrix: the upper triangle, row by row.
_high_symmetry_matrix(c11, c12, c13, c22, c23, c33, c44, c55, c66) ==
    << c11, c12, c13, Zero, Zero, Zero,
       c22, c23, Zero, Zero, Zero,
       c33, Zero, Zero, Zero,
       c44, Zero, Zero,
       c55, Zero,
       c66 >>

\* An Isotropic that takes c11 - c12 for the shear modulus in every system.
Isotropic_stiffness_no_gamma(h) ==
    LET c11 == h.attrs.c11
        c12 == h.attrs.c12
        c44 == Sub(c11, c12)
    IN  StiffnessMatrix(
            _high_symmetry_matrix(c11, c12, c12, c11, c12, c11, c44, c44, c44),
            h.system, DEFAULT_UNITS)

Isotropic_stiffness_from_moduli(h) ==
    LET c11 == h.attrs.c11
        c12 == h.attrs.c12
        cdiff_12 == Sub(c11, c12)
        c44 == IF h.system = VOIGT_GAMMA THEN Mul(Half, cdiff_12) ELSE cdiff_12
    IN  StiffnessMatrix(
            _high_symmetry_matrix(c11, c12, c12, c11, c12, c11, c44, c44, c44),
            h.system, DEFAULT_UNITS)

Cubic_stiffness_from_moduli(h) ==
    LET c11 == h.attrs.c11
        c12 == h.attrs.c12
        c44 == h.attrs.c44
    IN  StiffnessMatrix(
            _high_symmetry_matrix(c11, c12, c12, c11, c12, c11, c44, c44, c44),
            h.system, DEFAULT_UNITS)

Hexagonal_stiffness_from_moduli(h) ==
    LET c11 == h.attrs.c11
        c12 == h.attrs.c12
        c13 == h.attrs.c13
        c33 == h.attrs.c33
        c44 == h.attrs.c44
        cdiff_12 == Sub(c11, c12)
        c66 == IF h.system = VOIGT_GAMMA THEN Mul(Half, cdiff_12) ELSE cdiff_12
    IN  StiffnessMatrix(
            _high_symmetry_matrix(c11, c12, c13, c11, c13, c33, c44, c44, c66),
            h.system, DEFAULT_UNITS)

Triclinic_stiffness_from_moduli(h) ==
    StiffnessMatrix(h.attrs.cij, h.system, DEFAULT_UNITS)

stiffness_from_moduli(h) ==
    CASE h.cls = "isotropic" -> Isotropic_stiffness_from_moduli(h)
      [] h.cls = "cubic" -> Cubic_stiffness_from_moduli(h)
      [] h.cls = "hexagonal" -> Hexagonal_stiffness_from_moduli(h)
      [] h.cls = "triclinic" -> Triclinic_stiffness_from_moduli(h)

Isotropic_moduli_from_stiffness(h, m) ==
    [h EXCEPT !.attrs = [c11 |-> m[1][1], c12 |-> m[1][2]]]

Cubic_moduli_from_stiffness(h, m) ==
    [h EXCEPT !.attrs = [c11 |-> m[1][1], c12 |-> m[1][2], c44 |-> m[4][4]]]

\* A Hexagonal that keeps the c44 it was given.
Hexagonal_moduli_c44_kept(h, m) ==
    [h EXCEPT !.attrs = [c11 |-> m[1][1], c12 |-> m[1][2], c13 |-> m[1][3],
                         c33 |-> m[3][3], c44 |-> h.attrs.c44]]

Hexagonal_moduli_from_stiffness(h, m) ==
    [h EXCEPT !.attrs = [c11 |-> m[1][1], c12 |-> m[1][2], c13 |-> m[1][3],
                         c33 |-> m[3][3], c44 |-> m[4][4]]]

\* m[np.triu_indices(6)]
UpperTriangle(m) ==
    [k \in 1..Len(_UT_INDICES) |-> m[_UT_INDICES[k][1]][_UT_INDICES[k][2]]]

\* A Triclinic that keeps the cij it was given.
Triclinic_moduli_kept(h, m) == h

Triclinic_moduli_from_stiffness(h, m) ==
    [h EXCEPT !.attrs = [cij |-> UpperTriangle(m)]]

moduli_from_stiffness(h, sm) ==
    CASE h.cls = "isotropic" -> Isotropic_moduli_from_stiffness(h, sm.matrix)
      [] h.cls = "cubic" -> Cubic_moduli_from_stiffness(h, sm.matrix)
      [] h.cls = "hexagonal" -> Hexagonal_moduli_from_stiffness(h, sm.matrix)
      [] h.cls = "triclinic" -> Triclinic_moduli_from_stiffness(h, sm.matrix)

\* A handler with its StiffnessMatrix.
Owned(h, sm) == [moduli |-> h, stiffness |-> sm]

\* BaseModuli.init_system, and the last two statements of Isotropic.__init__.
init_system(h) == Once(LAMBDA hh : Owned(hh, stiffness_from_moduli(hh)), h)

\* The constructors.
Isotropic(c11, c12, system) ==
    init_system(Handler("isotropic", system, [c11 |-> c11, c12 |-> c12]))

Cubic(c11, c12, c44, system) ==
    init_system(Handler("cubic", system, [c11 |-> c11, c12 |-> c12, c44 |-> c44]))

Hexagonal(c11, c12, c13, c33, c44, system) ==
    init_system(Handler("hexagonal", system,
        [c11 |-> c11, c12 |-> c12, c13 |-> c13, c33 |-> c33, c44 |-> c44]))

Triclinic(cij, system) ==
    init_system(Handler("triclinic", system, [cij |-> cij]))

Three == <<3, 0, 1>>
Four == <<4, 0, 1>>

\* Isotropic.from_K_G: the system is the constructor's default.
Isotropic_from_K_G(K, G) ==
    LET c11 == Div(Add(Mul(Three, K), Mul(Four, G)), Three)
        c12 == Div(Sub(Mul(Three, K), Mul(Two, G)), Three)
    IN  Isotropic(c11, c12, MANDEL)

\* Isotropic.from_E_nu
Isotropic_from_E_nu(E, nu) ==
    LET K == Div(Div(E, Sub(One, Mul(Two, nu))), Three)
        G == Div(Div(E, Add(One, nu)), Two)
    IN  Isotropic_from_K_G(K, G)

\* Cubic.from_K_Gd_Gs
Cubic_from_K_Gd_Gs(K, Gd, Gs, system) ==
    LET c11 == Div(Add(Mul(Three, K), Mul(Four, Gd)), Three)
        c12 == Div(Sub(Mul(Three, K), Mul(Two, Gd)), Three)
        c44 == IF system = VOIGT_GAMMA THEN Gs ELSE Mul(Two, Gs)
    IN  Cubic(c11, c12, c44, system)

\* The properties of Cubic.
Cubic_K(h) == Div(Add(h.attrs.c11, Mul(Two, h.attrs.c12)), Three)
Cubic_Gd(h) == Div(Sub(h.attrs.c11, h.attrs.c12), Two)
\* The shear modulus read as c44 whatever the system.
Cubic_Gs_c44(h) == h.attrs.c44

Cubic_Gs(h) ==
    IF h.system = VOIGT_GAMMA THEN h.attrs.c44 ELSE Mul(Half, h.attrs.c44)
Cubic_isotropic_G(h) ==
    Add(Mul(Rat(6, 10), Cubic_Gs(h)), Mul(Rat(4, 10), Cubic_Gd(h)))
Cubic_zener_A(h) == Div(Cubic_Gs(h), Cubic_Gd(h))

\* Python's None where a sequence of moduli is expected.
NoModuli == <<>>

\* handler.cij: Cubic defines the property, Triclinic assigns the attribute;
\* Isotropic and Hexagonal define none, and the abstract BaseModuli.cij
\* returns nothing.
Moduli_cij(h) ==
    CASE h.cls = "cubic" -> <<h.attrs.c11, h.attrs.c12, h.attrs.c44>>
      [] h.cls = "triclinic" -> h.attrs.cij
      [] OTHER -> NoModuli

\* BaseModuli.system setter: _check_system, then the handler's tag, then the
\* matrix's setter, then moduli_from_stiffness.
Moduli_set_system(o, v) ==
    IF ~InEnum(v) THEN Outcome("ValueError", o)
    ELSE LET h1 == [o.moduli EXCEPT !.system = v]
             Reread(r) ==
                 IF r.raised # "none"
                 THEN Outcome(r.raised, Owned(h1, r.obj))
                 ELSE Outcome("none", Owned(moduli_from_stiffness(h1, r.obj), r.obj))
         IN  Once(Reread, StiffnessSetSystem(o.stiffness, v))

----------------------------------------------------------------------------
(* moduli_tools/__init__.py, single_crystal.py *)

Returned(val) == [raised |-> "none", val |-> val]
Raised(exc) == [raised |-> exc, val |-> None]

\* component_system(system_spec): a value `in` the Enum is returned as it is,
\* a member's name gives the member, anything else is a ValueError.
component_system(system_spec) ==
    IF InEnum(system_spec) THEN Returned(system_spec)
    ELSE IF system_spec.t = "str" /\ Member(system_spec.v) \in MatrixComponentSystem
         THEN Returned(Member(system_spec.v))
         ELSE Raised("ValueError")

\* The objects a program holds: a SingleCrystal, its handler, the handler's
\* StiffnessMatrix (NoObject for what the program did not construct).
World(x, h, sm) == [crystal |-> x, moduli |-> h, stiffness |-> sm]

\* moduli_handler(symm)(*cij, system=...): the handlers take the moduli
\* positionally (Triclinic the array); none keeps the units it is given.
ModuliHandler(symm, cij, system) ==
    CASE symm = "isotropic" -> Isotropic(cij[1], cij[2], system)
      [] symm = "cubic" -> Cubic(cij[1], cij[2], cij[3], system)
      [] symm = "hexagonal" -> Hexagonal(cij[1], cij[2], cij[3], cij[4], cij[5], system)
      [] symm = "triclinic" -> Triclinic(cij, system)

\* SingleCrystal.output_system setter
Crystal_set_output_system(w, v) ==
    LET Assign(c) ==
            IF c.raised # "none" THEN Outcome(c.raised, w)
            ELSE LET x1 == [w.crystal EXCEPT !.output_system = c.val]
                     Held(r) == Outcome(r.raised, World(x1, r.obj.moduli, r.obj.stiffness))
                 IN  Once(Held, Moduli_set_system(Owned(w.moduli, w.stiffness), c.val))
    IN  Once(Assign, component_system(v))

\* SingleCrystal.output_units setter: an assignment to the handler's
\* attribute `units` (no handler class defines a property of that name).
Crystal_set_output_units(w, v) ==
    [w EXCEPT !.moduli.units = v]

\* SingleCrystal.__init__ with a recognized symmetry and recognized systems.
SingleCrystal(symm, cij, input_system, output_system, input_units, output_units) ==
    LET insys == component_system(input_system).val
        x0 == [symm |-> symm, cij |-> cij, input_system |-> insys,
               output_system |-> None, input_units |-> None]
        WithUnits(o) == World(x0, [o.moduli EXCEPT !.units = output_units], o.stiffness)
        WithOutput(w0) ==
            Crystal_set_output_system(w0, component_system(output_system).val).obj
        WithInputUnits(w1) == [w1 EXCEPT !.crystal.input_units = input_units]
    IN  Once(WithInputUnits,
             Once(WithOutput, Once(WithUnits, ModuliHandler(symm, cij, insys))))

\* The read-only properties of SingleCrystal.
Crystal_cij(w) == w.crystal.cij
Crystal_cij_in(w) == Crystal_cij(w)
Crystal_cij_out(w) == Moduli_cij(w.moduli)
Crystal_stiffness(w) == w.stiffness.matrix
Crystal_output_units(w) == w.moduli.units
Crystal_input_system(w) == w.crystal.input_system
Crystal_output_system(w) == w.crystal.output_system

----------------------------------------------------------------------------
(* utils/tensor_data: 3x3 tensors and their 6-vectors of symmetric
   components.  An ndarray of tensors is [ndim, data]: data is the sequence
   of its 3x3 matrices, ndim is 2 for a single (3, 3) array. *)

Array(ndim, data) == [ndim |-> ndim, data |-> data]

Mat3(F(_, _)) ==
    << <<F(1, 1), F(1, 2), F(1, 3)>>,
       <<F(2, 1), F(2, 2), F(2, 3)>>,
       <<F(3, 1), F(3, 2), F(3, 3)>> >>

\* A @ B for 3x3 matrices
MatMul3(A, B) ==
    LET Prod(a, b) ==
            Mat3(LAMBDA i, j : Add(Add(Mul(a[i][1], b[1][j]), Mul(a[i][2], b[2][j])),
                                   Mul(a[i][3], b[3][j])))
    IN  CHOOSE m \in {Prod(a, b) : a \in {A}, b \in {B}} : TRUE

\* A.T for a 3x3 matrix
Transpose3(A) == CHOOSE m \in {Mat3(LAMBDA i, j : a[j][i]) : a \in {A}} : TRUE

\* M @ v for a 6x6 matrix and a 6-vector
MatVec6(M, v) ==
    LET Row(m, u, i) ==
            Add(Add(Add(Mul(m[i][1], u[1]), Mul(m[i][2], u[2])),
                    Add(Mul(m[i][3], u[3]), Mul(m[i][4], u[4]))),
                Add(Mul(m[i][5], u[5]), Mul(m[i][6], u[6])))
    IN  CHOOSE w \in {Vec6(LAMBDA i : Row(m, u, i)) : m \in {M}, u \in {v}} : TRUE

_s2i == Div(One, _s2)

\* VoigtSystem.to_components, MandelSystem.to_components: the first six
\* (symmetric) components, which is what .symm returns.
Voigt_symm(M) ==
    CHOOSE c \in {<<m[1][1], m[2][2], m[3][3],
                    Mul(Half, Add(m[2][3], m[3][2])),
                    Mul(Half, Add(m[1][3], m[3][1])),
                    Mul(Half, Add(m[1][2], m[2][1]))>> : m \in {M}} : TRUE

Mandel_symm(M) ==
    CHOOSE c \in {<<m[1][1], m[2][2], m[3][3],
                    Mul(_s2i, Add(m[2][3], m[3][2])),
                    Mul(_s2i, Add(m[1][3], m[3][1])),
                    Mul(_s2i, Add(m[1][2], m[2][1]))>> : m \in {M}} : TRUE

\* from_parts(symm=c).matrices: to_matrices of the components with a zero
\* skew part.
Voigt_from_symm(c) ==
    CHOOSE m \in {<< <<v[1], Sub(v[6], Zero), Add(v[5], Zero)>>,
                     <<Add(Zero, v[6]), v[2], Sub(v[4], Zero)>>,
                     <<Sub(v[5], Zero), Add(Zero, v[4]), v[3]>> >> : v \in {c}} : TRUE

Mandel_from_symm(c) ==
    CHOOSE m \in {<< <<v[1], Mul(_s2i, Sub(v[6], Zero)), Mul(_s2i, Add(v[5], Zero))>>,
                     <<Mul(_s2i, Add(Zero, v[6])), v[2], Mul(_s2i, Sub(v[4], Zero))>>,
                     <<Mul(_s2i, Sub(v[5], Zero)), Mul(_s2i, Add(Zero, v[4])), v[3]>> >> :
                     v \in {c}} : TRUE

\* SingleCrystal.system_d
system_d(system) ==
    CASE system = VOIGT_GAMMA -> "Voigt"
      [] system = VOIGT_EPSILON -> "Voigt"
      [] system = MANDEL -> "Mandel"

System_symm(name, M) == IF name = "Voigt" THEN Voigt_symm(M) ELSE Mandel_symm(M)
System_from_symm(name, c) ==
    IF name = "Voigt" THEN Voigt_from_symm(c) ELSE Mandel_from_symm(c)

----------------------------------------------------------------------------
(* single_crystal.py: stiffness and compliance applied to tensors *)

\* The longest batch of tensors the model stacks.
MaxBatch == 4

\* The eager sequence <<F(1), ..., F(n)>>.
Stack(F(_), n) ==
    CASE n = 0 -> <<>>
      [] n = 1 -> <<F(1)>>
      [] n = 2 -> <<F(1), F(2)>>
      [] n = 3 -> <<F(1), F(2), F(3)>>
      [] n = 4 -> <<F(1), F(2), F(3), F(4)>>
      [] n = 5 -> <<F(1), F(2), F(3), F(4), F(5)>>
      [] n = 6 -> <<F(1), F(2), F(3), F(4), F(5), F(6)>>

\* np.linalg.inv by Gauss-Jordan elimination on [M | I], exactly; <<>>
\* when a column has no pivot.
Augmented(M) ==
    LET Row(m, i) ==
            <<m[i][1], m[i][2], m[i][3], m[i][4], m[i][5], m[i][6],
              IF i = 1 THEN One ELSE Zero, IF i = 2 THEN One ELSE Zero,
              IF i = 3 THEN One ELSE Zero, IF i = 4 THEN One ELSE Zero,
              IF i = 5 THEN One ELSE Zero, IF i = 6 THEN One ELSE Zero>>
    IN  CHOOSE a \in {Vec6(LAMBDA i : Row(m, i)) : m \in {M}} : TRUE

Pivots(m, k) == {p \in k..6 : m[p][k] # Zero}

\* Bring the pivot row to row k, scale it to a unit pivot, and clear
\* column k from every other row.
Eliminate(m, k) ==
    LET Cleared(p, piv, i, j) ==
            IF i = k THEN Div(m[p][j], piv)
            ELSE LET r == IF i = p THEN k ELSE i
                 IN  IF m[r][k] = Zero THEN m[r][j]
                     ELSE Sub(m[r][j], Mul(m[r][k], Div(m[p][j], piv)))
        Row(p, piv, i) ==
            <<Cleared(p, piv, i, 1), Cleared(p, piv, i, 2), Cleared(p, piv, i, 3),
              Cleared(p, piv, i, 4), Cleared(p, piv, i, 5), Cleared(p, piv, i, 6),
              Cleared(p, piv, i, 7), Cleared(p, piv, i, 8), Cleared(p, piv, i, 9),
              Cleared(p, piv, i, 10), Cleared(p, piv, i, 11), Cleared(p, piv, i, 12)>>
    IN  CHOOSE e \in {Vec6(LAMBDA i : Row(p, m[p][k], i)) :
                         p \in {CHOOSE x \in Pivots(m, k) :
                                   \A y \in Pivots(m, k) : x <= y}} : TRUE

RECURSIVE GaussJordan(_, _)
GaussJordan(m, k) ==
    IF k > 6 THEN m
    ELSE IF Pivots(m, k) = {} THEN <<>>
    ELSE CHOOSE g \in {GaussJordan(e, k + 1) : e \in {Eliminate(m, k)}} : TRUE

linalg_inv(M) ==
    LET Right(g) == Mat6(LAMBDA i, j : g[i][j + 6])
        Result(g) == IF g = <<>> THEN Raised("LinAlgError") ELSE Returned(Right(g))
    IN  CHOOSE r \in {Result(g) : g \in {GaussJordan(a, 1) : a \in {Augmented(M)}}} : TRUE

\* SingleCrystal.compliance
Crystal_compliance(w) == linalg_inv(Crystal_stiffness(w))

\* SingleCrystal._to_3d for an array of 3x3 matrices
_to_3d(arr) ==
    IF arr = None THEN arr
    ELSE IF arr.ndim = 2 THEN Array(3, arr.data)
    ELSE arr

\* rot.transpose((0, 2, 1))
TransposeEach(rot) ==
    CHOOSE t \in {Array(3, Stack(LAMBDA k : Transpose3(r.data[k]), Len(r.data))) :
                     r \in {rot}} : TRUE

\* A change of basis that takes the rotations in turn, however many there are.
_change_basis_cycled(mat, rot) ==
    IF rot = None THEN Returned(mat)
    ELSE LET Turned(m, r, k) ==
                 MatMul3(MatMul3(r.data[((k - 1) % Len(r.data)) + 1], m.data[k]),
                         Transpose3(r.data[((k - 1) % Len(r.data)) + 1]))
         IN  CHOOSE b \in {Returned(Array(3, Stack(LAMBDA k : Turned(m, r, k), Len(m.data)))) :
                              m \in {mat}, r \in {rot}} : TRUE

\* len(arr) of an array of 3x3 matrices: the length of its first axis, the
\* number of matrices of a batch (n, 3, 3) and the three rows of a single
\* (3, 3) matrix.
len_of(arr) == IF arr.ndim = 2 THEN 3 ELSE Len(arr.data)

\* SingleCrystal._change_basis, rot a batch (n, 3, 3) or None.  The product
\* rot @ mat @ rot.transpose((0, 2, 1)) takes a batch of matrices one by one
\* and broadcasts a single (3, 3) matrix over the rotations.
_change_basis(mat, rot) ==
    IF rot = None THEN Returned(mat)
    ELSE IF len_of(mat) # len_of(rot) THEN Raised("ValueError")
    ELSE LET Of(m, k) == IF m.ndim = 2 THEN m.data[1] ELSE m.data[k]
             Turned(m, r, k) == MatMul3(MatMul3(r.data[k], Of(m, k)), Transpose3(r.data[k]))
         IN  CHOOSE b \in {Returned(Array(3, Stack(LAMBDA k : Turned(m, r, k), Len(r.data)))) :
                              m \in {mat}, r \in {rot}} : TRUE

\* arr[3:] *= f on an (n, 6) array of n 6-vectors: the rows from the fourth.
ScaleFrom4thRow(vecs, f) ==
    LET Row(v, k) == IF k > 3 THEN Vec6(LAMBDA c : Mul(v[k][c], f)) ELSE v[k]
    IN  CHOOSE s \in {Stack(LAMBDA k : Row(v, k), Len(v)) : v \in {vecs}} : TRUE

\* arr[3:] *= f on a (6, n) array of n 6-vectors: components 4, 5 and 6 of
\* each vector.
ScaleFrom4thComponent(vecs, f) ==
    LET Col(v, k) == Vec6(LAMBDA c : IF c > 3 THEN Mul(v[k][c], f) ELSE v[k][c])
    IN  CHOOSE s \in {Stack(LAMBDA k : Col(v, k), Len(v)) : v \in {vecs}} : TRUE

\* What a call returned: the exception raised, the value, and the 6-vectors
\* it went through (as read from the matrices, and as multiplied).
Applied(raised, val, symm, scaled) ==
    [raised |-> raised, val |-> val, symm |-> symm, scaled |-> scaled]

\* SingleCrystal.apply_stiffness
apply_stiffness(w, eps, rmat) ==
    LET System == system_d(Crystal_output_system(w))
        gamma == Crystal_output_system(w) = VOIGT_GAMMA
        Sample(sig_c_mat) ==
            IF rmat = None THEN Returned(sig_c_mat)
            ELSE _change_basis(sig_c_mat, TransposeEach(rmat))
        Matrices(symm, scaled, sig_c_vec) ==
            LET Out(sig_s_mat) == Applied(sig_s_mat.raised, sig_s_mat.val, symm, scaled)
                Of(k) == System_from_symm(System, sig_c_vec[k])
            IN  Once(Out, Sample(Array(3, Stack(Of, Len(sig_c_vec)))))
        Multiplied(symm, scaled) ==
            LET Of(k) == MatVec6(Crystal_stiffness(w), scaled[k])
                Then(sig_c_vec) == Matrices(symm, scaled, sig_c_vec)
            IN  Once(Then, Stack(Of, Len(scaled)))
        Scaled(symm) ==
            LET Then(eps_c_vec) == Multiplied(symm, eps_c_vec)
            IN  Once(Then, IF gamma THEN ScaleFrom4thRow(symm, Two) ELSE symm)
        Vectors(eps_c_mat) ==
            LET Of(k) == System_symm(System, eps_c_mat.val.data[k])
            IN  IF eps_c_mat.raised # "none"
                THEN Applied(eps_c_mat.raised, None, None, None)
                ELSE Once(Scaled, Stack(Of, Len(eps_c_mat.val.data)))
    IN  Once(Vectors, _change_basis(_to_3d(eps), rmat))

\* SingleCrystal.apply_compliance
apply_compliance(w, sig, rmat) ==
    LET System == system_d(Crystal_output_system(w))
        gamma == Crystal_output_system(w) = VOIGT_GAMMA
        Sample(eps_c_mat) ==
            IF rmat = None THEN Returned(eps_c_mat)
            ELSE _change_basis(eps_c_mat, TransposeEach(rmat))
        Matrices(symm, eps_c_vec) ==
            LET Out(eps_s_mat) == Applied(eps_s_mat.raised, eps_s_mat.val, symm, eps_c_vec)
                Of(k) == System_from_symm(System, eps_c_vec[k])
            IN  Once(Out, Sample(Array(3, Stack(Of, Len(eps_c_vec)))))
        Scaled(symm, eps_c_vec) ==
            LET Then(v) == Matrices(symm, v)
            IN  Once(Then, IF gamma THEN ScaleFrom4thComponent(eps_c_vec, Half)
                           ELSE eps_c_vec)
        Multiplied(symm, compliance) ==
            LET Of(k) == MatVec6(compliance.val, symm[k])
                Then(eps_c_vec) == Scaled(symm, eps_c_vec)
            IN  IF compliance.raised # "none"
                THEN Applied(compliance.raised, None, None, None)
                ELSE Once(Then, Stack(Of, Len(symm)))
        Inverted(symm) ==
            LET Then(compliance) == Multiplied(symm, compliance)
            IN  Once(Then, Crystal_compliance(w))
        Vectors(sig_c_mat) ==
            LET Of(k) == System_symm(System, sig_c_mat.val.data[k])
            IN  IF sig_c_mat.raised # "none"
                THEN Applied(sig_c_mat.raised, None, None, None)
                ELSE Once(Inverted, Stack(Of, Len(sig_c_mat.val.data)))
    IN  Once(Vectors, _change_basis(_to_3d(sig), rmat))

----------------------------------------------------------------------------
(* The inputs *)

\* The moduli of the test suites are multiples of 1/10; the model draws
\* them as n/10 with small n.
Tenths(n) == Rat(n, 10)

Ones21 == [k \in 1..21 |-> One]
Arange21 == [k \in 1..21 |-> Num(k - 1)]
\* The upper triangle of diag(1, 1, 1, g, g, g).
DiagUpper(g) == _high_symmetry_matrix(One, Zero, Zero, One, Zero, One, g, g, g)

Units == {"GPa", "MPa"}
SystemNames == {StrVal(s.v) : s \in MatrixComponentSystem}
\* What a program may hand to a system setter: the members, their names, a
\* name of no member, a member's value, a value of no member.
SystemValues ==
    MatrixComponentSystem \cup SystemNames
        \cup {StrVal("SYMMDEV"), IntVal("1"), IntVal("7")}

Construction(k, ctor, args, w) ==
    [kind |-> k, ctor |-> ctor, args |-> args, world |-> w]

MatrixConstructions ==
    {Construction("matrix", "StiffnessMatrix",
                  [cij |-> c, system |-> s, units |-> u],
                  World(NoObject, NoObject, StiffnessMatrix(c, s, u))) :
        c \in {Ones21, Arange21}, s \in MatrixComponentSystem, u \in Units}

OfHandler(ctor, args, o) ==
    Construction("moduli", ctor, args, World(NoObject, o.moduli, o.stiffness))

IsotropicInputs == {<<One, Zero>>, <<Tenths(23), Tenths(49)>>}
KGInputs == {<<Rat(1, 3), Half>>, <<One, One>>}
CubicInputs == {<<One, Zero, Half>>, <<Tenths(23), Tenths(45), Tenths(78)>>}
KGdGsInputs == {<<Rat(1, 3), Half, Half>>, <<Tenths(31), Tenths(52), Tenths(73)>>,
                <<One, One, Two>>}
HexagonalInputs == {<<One, Zero, Zero, One, One>>, <<One, Zero, Zero, One, Half>>,
                    <<One, Tenths(23), Tenths(34), Tenths(56), Tenths(66)>>}
TriclinicInputs == {DiagUpper(One), DiagUpper(Half), Arange21}

HandlerConstructions ==
    {OfHandler("Isotropic", [c11 |-> a[1], c12 |-> a[2], system |-> s],
               Isotropic(a[1], a[2], s)) :
        a \in IsotropicInputs, s \in MatrixComponentSystem}
    \cup
    {OfHandler("Isotropic.from_K_G", [K |-> a[1], G |-> a[2], system |-> MANDEL],
               Isotropic_from_K_G(a[1], a[2])) : a \in KGInputs}
    \cup
    {OfHandler("Cubic", [c11 |-> a[1], c12 |-> a[2], c44 |-> a[3], system |-> s],
               Cubic(a[1], a[2], a[3], s)) :
        a \in CubicInputs, s \in MatrixComponentSystem}
    \cup
    {OfHandler("Cubic.from_K_Gd_Gs", [K |-> a[1], Gd |-> a[2], Gs |-> a[3], system |-> s],
               Cubic_from_K_Gd_Gs(a[1], a[2], a[3], s)) :
        a \in KGdGsInputs, s \in MatrixComponentSystem}
    \cup
    {OfHandler("Hexagonal", [c11 |-> a[1], c12 |-> a[2], c13 |-> a[3], c33 |-> a[4],
                             c44 |-> a[5], system |-> s],
               Hexagonal(a[1], a[2], a[3], a[4], a[5], s)) :
        a \in HexagonalInputs, s \in MatrixComponentSystem}
    \cup
    {OfHandler("Triclinic", [cij |-> a, system |-> s], Triclinic(a, s)) :
        a \in TriclinicInputs, s \in MatrixComponentSystem}

CrystalInputs ==
    {<<"isotropic", a>> : a \in IsotropicInputs}
    \cup {<<"cubic", a>> : a \in CubicInputs}
    \cup {<<"hexagonal", a>> : a \in HexagonalInputs}
    \cup {<<"triclinic", a>> : a \in TriclinicInputs}

CrystalConstructions ==
    {Construction("crystal", "SingleCrystal",
                  [symm |-> a[1], cij |-> a[2], input_system |-> i, output_system |-> o],
                  SingleCrystal(a[1], a[2], i, o, DEFAULT_UNITS, DEFAULT_UNITS)) :
        a \in CrystalInputs, i \in SystemNames, o \in SystemNames}

Constructions == MatrixConstructions \cup HandlerConstructions \cup CrystalConstructions

\* Symmetric strains with all nine entries nonzero, one for each place of a
\* batch, and quarter turns about the z, x and y axes.
Strain(k) ==
    << <<Num(k), Num(k + 1), Num(k + 2)>>,
       <<Num(k + 1), Num(2 * k), Num(k + 3)>>,
       <<Num(k + 2), Num(k + 3), Num(3 * k)>> >>

Rotation(k) ==
    CASE k % 3 = 1 -> << <<Zero, Neg(One), Zero>>, <<One, Zero, Zero>>, <<Zero, Zero, One>> >>
      [] k % 3 = 2 -> << <<One, Zero, Zero>>, <<Zero, Zero, Neg(One)>>, <<Zero, One, Zero>> >>
      [] k % 3 = 0 -> << <<Zero, Zero, One>>, <<Zero, One, Zero>>, <<Neg(One), Zero, Zero>> >>

\* A single (3, 3) strain, and the batches (n, 3, 3) for n = 1 .. MaxBatch.
StrainInputs ==
    {Array(2, <<Strain(1)>>)} \cup {Array(3, Stack(Strain, n)) : n \in 1..MaxBatch}

\* No rotation, one rotation for each tensor, or one rotation too many.
RotationInputs(eps) ==
    {None, Array(3, Stack(Rotation, Len(eps.data))),
     Array(3, Stack(Rotation, Len(eps.data) + 1))}

----------------------------------------------------------------------------
(* orientations/quaternions.py, orientations/crystalsymmetry.py            *)
(*                                                                         *)
(* Numbers.  The symmetry groups hold the factors 1/2, 1/sqrt(2) (cubic)   *)
(* and sqrt(3)/2 (hexagonal).  An array of quaternions carries the         *)
(* radicand D of the field Q(sqrt D) its entries are in, and the tuple     *)
(* <<a, b, d>> in it is the number (a + b*sqrt(D)) / d.  Sums, differences *)
(* and negation do not depend on D.                                        *)

\* x * y in Q(sqrt D)
MulIn(D, x, y) ==
    CHOOSE q \in {IF u = Zero \/ v = Zero THEN Zero
                  ELSE IF u = One THEN v
                  ELSE IF v = One THEN u
                  ELSE Q2(u[1] * v[1] + D * u[2] * v[2], u[1] * v[2] + u[2] * v[1],
                          u[3] * v[3]) :
                     u \in {x}, v \in {y}} : TRUE

\* x / y in Q(sqrt D), y # 0: x times the conjugate of y over its norm.
DivIn(D, x, y) ==
    CHOOSE q \in {IF v = One THEN u
                  ELSE MulIn(D, u, Q2(v[1] * v[3], -(v[2] * v[3]),
                                      v[1] * v[1] - D * v[2] * v[2])) :
                     u \in {x}, v \in {y}} : TRUE

\* The sign of x in Q(sqrt D): -1, 0 or 1.
SignIn(D, x) ==
    CHOOSE s \in {IF u[1] >= 0 /\ u[2] >= 0 THEN (IF u[1] = 0 /\ u[2] = 0 THEN 0 ELSE 1)
                  ELSE IF u[1] <= 0 /\ u[2] <= 0 THEN -1
                  ELSE IF u[1] > 0 THEN (IF u[1] * u[1] > D * u[2] * u[2] THEN 1 ELSE -1)
                  ELSE (IF D * u[2] * u[2] > u[1] * u[1] THEN 1 ELSE -1) :
                     u \in {x}} : TRUE

\* np.abs
AbsIn(D, x) == CHOOSE a \in {IF SignIn(D, u) < 0 THEN Neg(u) ELSE u : u \in {x}} : TRUE

\* np.sqrt of a rational that is the square of a rational
Sqrt(x) ==
    IF x = One THEN One
    ELSE Rat(CHOOSE k \in 0..x[1] : k * k = x[1], CHOOSE k \in 1..x[3] : k * k = x[3])

\* An (n, 4) array of quaternions with entries in Q(sqrt rad).
QuatArray(rad, data) == [rad |-> rad, data |-> data]

\* multiply(q_1, q_2) for a single quaternion q_1 (1-D, reshaped to (1, 4))
\* and an (n, 4) array q_2: the products q_1 * q_2[k], each divided by its
\* norm.
multiply(q_1, q_2) ==
    LET D == q_2.rad
        Row(g) ==
            CHOOSE r \in
              {CHOOSE w \in {<<DivIn(D, p[1], n), DivIn(D, p[2], n),
                               DivIn(D, p[3], n), DivIn(D, p[4], n)>> :
                    n \in {Sqrt(Add(Add(MulIn(D, p[1], p[1]), MulIn(D, p[2], p[2])),
                                    Add(MulIn(D, p[3], p[3]), MulIn(D, p[4], p[4]))))}} : TRUE :
                 p \in {<<Sub(MulIn(D, q_1[1], g[1]),
                          Add(Add(MulIn(D, q_1[2], g[2]), MulIn(D, q_1[3], g[3])),
                              MulIn(D, q_1[4], g[4]))),
                        Add(Add(MulIn(D, q_1[1], g[2]), MulIn(D, g[1], q_1[2])),
                            Sub(MulIn(D, q_1[3], g[4]), MulIn(D, q_1[4], g[3]))),
                        Add(Add(MulIn(D, q_1[1], g[3]), MulIn(D, g[1], q_1[3])),
                            Sub(MulIn(D, q_1[4], g[2]), MulIn(D, q_1[2], g[4]))),
                        Add(Add(MulIn(D, q_1[1], g[4]), MulIn(D, g[1], q_1[4])),
                            Sub(MulIn(D, q_1[2], g[3]), MulIn(D, q_1[3], g[2])))>>}} : TRUE
    IN  QuatArray(D, [k \in 1..Len(q_2.data) |-> Row(q_2.data[k])])

\* The last index of the largest |scalar part|.
argmax_abs0_last(qeqv) ==
    LET D == qeqv.rad
        a == CHOOSE s \in {[k \in 1..Len(qeqv.data) |-> AbsIn(D, qeqv.data[k][1])]} : TRUE
    IN  CHOOSE j \in 1..Len(qeqv.data) :
            \A k \in 1..Len(qeqv.data) :
                /\ k > j => SignIn(D, Sub(a[j], a[k])) = 1
                /\ k < j => SignIn(D, Sub(a[j], a[k])) >= 0

\* np.abs(qeqv[:, 0]).argmax(): the first index of the largest |scalar part|
argmax_abs0(qeqv) ==
    LET D == qeqv.rad
        a == CHOOSE s \in {[k \in 1..Len(qeqv.data) |-> AbsIn(D, qeqv.data[k][1])]} : TRUE
    IN  CHOOSE j \in 1..Len(qeqv.data) :
            \A k \in 1..Len(qeqv.data) :
                /\ k < j => SignIn(D, Sub(a[j], a[k])) = 1
                /\ k > j => SignIn(D, Sub(a[j], a[k])) >= 0

\* CrystalSymmetry(name, qsymm): the instance (its registration is the
\* constructor action's).
CrystalSymmetry(name, qsymm) == [_name |-> name, _q |-> qsymm]

\* CrystalSymmetry.nsymm
nsymm(self) == Len(self._q.data)

\* CrystalSymmetry.to_fundamental_region(q) without the change of sign.
to_fundamental_region_unsigned(self, q) ==
    QuatArray(self._q.rad,
              [i \in 1..Len(q.data) |->
                  CHOOSE r \in {qeqv.data[argmax_abs0(qeqv)] :
                                   qeqv \in {multiply(q.data[i], self._q)}} : TRUE])

\* CrystalSymmetry.to_fundamental_region(q)
to_fundamental_region(self, q) ==
    QuatArray(self._q.rad,
              [i \in 1..Len(q.data) |->
                  CHOOSE r \in {IF SignIn(self._q.rad, qfr[1]) < 0
                                THEN <<Neg(qfr[1]), Neg(qfr[2]), Neg(qfr[3]), Neg(qfr[4])>>
                                ELSE qfr :
                                   qfr \in {qeqv.data[argmax_abs0(qeqv)] :
                                               qeqv \in {multiply(q.data[i], self._q)}}} : TRUE])

\* The dict _Registry.registry: its items in insertion order, each a key and
\* the instance it refers to (an index into the instances constructed).
\* A registration that keeps the entry a name already has.
_Registry_register_once(reg, name, inst) ==
    IF \E k \in 1..Len(reg) : reg[k].key = name
    THEN reg
    ELSE Append(reg, [key |-> name, value |-> inst])

\* _Registry.register(name, inst): registry[name] = inst
_Registry_register(reg, name, inst) ==
    IF \E k \in 1..Len(reg) : reg[k].key = name
    THEN [k \in 1..Len(reg) |-> IF reg[k].key = name
                                THEN [key |-> name, value |-> inst] ELSE reg[k]]
    ELSE Append(reg, [key |-> name, value |-> inst])

\* _Registry.get(name): registry[name]
_Registry_get(reg, name) ==
    IF \E k \in 1..Len(reg) : reg[k].key = name
    THEN Returned(reg[CHOOSE k \in 1..Len(reg) : reg[k].key = name].value)
    ELSE Raised("KeyError")

\* list_symmetries(): registry.keys()
list_symmetries(reg) == [k \in 1..Len(reg) |-> reg[k].key]

\* The module's groups.
_qident == QuatArray(2, <<<<One, Zero, Zero, Zero>>>>)

_qmono == QuatArray(2, << <<One, Zero, Zero, Zero>>,
                          <<Zero, Zero, One, Zero>> >>)

_qortho == QuatArray(2, << <<One, Zero, Zero, Zero>>,
                           <<Zero, One, Zero, Zero>>,
                           <<Zero, Zero, One, Zero>>,
                           <<Zero, Zero, Zero, One>> >>)

\* cos and sin of the multiples of pi/6, in Q(sqrt 3)
_qhex ==
    LET h == Half
        t == <<0, 1, 2>>
        O == Zero
    IN  QuatArray(3, << <<One, O, O, O>>,
                        <<t, O, O, h>>,
                        <<h, O, O, t>>,
                        <<O, O, O, One>>,
                        <<Neg(h), O, O, t>>,
                        <<Neg(t), O, O, h>>,
                        <<O, One, O, O>>,
                        <<O, t, h, O>>,
                        <<O, h, t, O>>,
                        <<O, O, One, O>>,
                        <<O, Neg(h), t, O>>,
                        <<O, Neg(t), h, O>> >>)

\* cos and sin of the multiples of pi/4, in Q(sqrt 2); sin(2 pi/3)/sqrt(3)
\* is 1/2 and sin(4 pi/3)/sqrt(3) is -1/2.
_qcubic ==
    LET s == <<0, 1, 2>>
        h == Half
        m == Neg(Half)
        O == Zero
    IN  QuatArray(2, << <<One, O, O, O>>,
                        <<s, s, O, O>>,
                        <<O, One, O, O>>,
                        <<Neg(s), s, O, O>>,
                        <<s, O, s, O>>,
                        <<O, O, One, O>>,
                        <<Neg(s), O, s, O>>,
                        <<s, O, O, s>>,
                        <<O, O, O, One>>,
                        <<Neg(s), O, O, s>>,
                        <<m, h, h, h>>,
                        <<m, m, m, m>>,
                        <<m, m, h, h>>,
                        <<m, h, m, m>>,
                        <<m, m, m, h>>,
                        <<m, h, h, m>>,
                        <<m, h, m, h>>,
                        <<m, m, h, m>>,
                        <<O, s, s, O>>,
                        <<O, Neg(s), s, O>>,
                        <<O, s, O, s>>,
                        <<O, O, s, s>>,
                        <<O, Neg(s), O, s>>,
                        <<O, O, Neg(s), s>> >>)

\* The constructions the import of crystalsymmetry makes, in order.
Imported ==
    << CrystalSymmetry("identity", _qident),
       CrystalSymmetry("monoclinic", _qmono),
       CrystalSymmetry("orthorhombic", _qortho),
       CrystalSymmetry("hexagonal", _qhex),
       CrystalSymmetry("cubic", _qcubic) >>

----------------------------------------------------------------------------
(* slip/slipgroup.py, slip/slipcrystal.py *)

\* The tuple <<f[1], ..., f[n]>> of a function on 1..n, each entry
\* evaluated once.
RECURSIVE Eager(_, _)
Eager(f, n) == IF n = 0 THEN <<>> ELSE Append(Eager(f, n - 1), f[n])

\* quaternions.to_rmats(q): (qs^2 - qv.qv) I + qv (2 qv)^T + skew(2 qs qv)
to_rmats(q) ==
    LET D == q.rad
        R(g) ==
            CHOOSE r \in
              {<< <<Add(c, MulIn(D, g[2], t[1])),
                    Sub(MulIn(D, g[2], t[2]), w[3]),
                    Add(MulIn(D, g[2], t[3]), w[2])>>,
                  <<Add(MulIn(D, g[3], t[1]), w[3]),
                    Add(c, MulIn(D, g[3], t[2])),
                    Sub(MulIn(D, g[3], t[3]), w[1])>>,
                  <<Sub(MulIn(D, g[4], t[1]), w[2]),
                    Add(MulIn(D, g[4], t[2]), w[1]),
                    Add(c, MulIn(D, g[4], t[3]))>> >> :
                 c \in {Sub(MulIn(D, g[1], g[1]),
                            Add(Add(MulIn(D, g[2], g[2]), MulIn(D, g[3], g[3])),
                                MulIn(D, g[4], g[4])))},
                 t \in {<<MulIn(D, Two, g[2]), MulIn(D, Two, g[3]), MulIn(D, Two, g[4])>>},
                 w \in {<<MulIn(D, MulIn(D, Two, g[1]), g[2]),
                          MulIn(D, MulIn(D, Two, g[1]), g[3]),
                          MulIn(D, MulIn(D, Two, g[1]), g[4])>>}} : TRUE
    IN  QuatArray(D, Eager([i \in 1..Len(q.data) |-> R(q.data[i])], Len(q.data)))

\* CrystalSymmetry.rmats
rmats(self) == to_rmats(self._q)

\* rmats @ v: the (n, 3) array of the images of the 3-vector v
Images(rm, v) ==
    LET D == rm.rad
        Row(m) == <<Add(Add(MulIn(D, m[1][1], v[1]), MulIn(D, m[1][2], v[2])),
                        MulIn(D, m[1][3], v[3])),
                    Add(Add(MulIn(D, m[2][1], v[1]), MulIn(D, m[2][2], v[2])),
                        MulIn(D, m[2][3], v[3])),
                    Add(Add(MulIn(D, m[3][1], v[1]), MulIn(D, m[3][2], v[2])),
                        MulIn(D, m[3][3], v[3]))>>
    IN  Eager([i \in 1..Len(rm.data) |-> Row(rm.data[i])], Len(rm.data))

\* The decimal fractions of at most nine places and of magnitude at most 1,
\* and their values in billionths.
Decimal(x) == x[2] = 0 /\ (10^9) % x[3] = 0 /\ Abs(x[1]) <= x[3]
Billionths(x) == x[1] * ((10^9) \div x[3])

\* The defaults of np.allclose, and the tolerance that _unique_ss sets and
\* does not use.
rtol == Rat(1, 100000)
atol == Rat(1, 100000000)
EPS == Rat(1, 100000000)

\* np.isclose(x, y, rt, at) of two numbers: |x - y| <= at + rt |y|, decided
\* in billionths for decimal fractions; the other numbers of the arrays
\* (integers, quarters, multiples of sqrt(3)/4) are equal or far apart.
isclose(x, y, rt, at) ==
    IF x = y THEN TRUE
    ELSE IF Decimal(x) /\ Decimal(y)
    THEN Abs(Billionths(x) - Billionths(y))
             <= Billionths(at) + (Abs(Billionths(y)) * rt[1]) \div rt[3]
    ELSE FALSE

\* np.allclose(a, b) of two (3, 3) arrays, with the default tolerances.
allclose(a, b) == \A r, c \in 1..3 : isclose(a[r][c], b[r][c], rtol, atol)

\* -a of a (3, 3) array
Negated(a) ==
    << <<Neg(a[1][1]), Neg(a[1][2]), Neg(a[1][3])>>,
       <<Neg(a[2][1]), Neg(a[2][2]), Neg(a[2][3])>>,
       <<Neg(a[3][1]), Neg(a[3][2]), Neg(a[3][3])>> >>

\* The loops of _unique_ss from row i on, include being the flags so far:
\* a row still included clears the flag of every later included row that
\* is the same up to sign.
RECURSIVE _unique_from(_, _, _)
_unique_from(ss, include, i) ==
    IF i > Len(ss) THEN include
    ELSE CHOOSE r \in
           {_unique_from(ss, inc, i + 1) :
              inc \in {IF include[i]
                       THEN Eager([j \in 1..Len(ss) |->
                                      IF j > i /\ include[j]
                                            /\ (allclose(ss[i], ss[j])
                                                  \/ allclose(ss[i], Negated(ss[j])))
                                      THEN FALSE ELSE include[j]], Len(ss))
                       ELSE include}} : TRUE

\* ss[include]
RECURSIVE Masked(_, _, _)
Masked(ss, include, n) ==
    IF n = 0 THEN <<>>
    ELSE IF include[n] THEN Append(Masked(ss, include, n - 1), ss[n])
    ELSE Masked(ss, include, n - 1)

\* _unique_ss without the loops: every row is kept.
_unique_ss_all(ss) == ss

\* SlipGroup._unique_ss(ss)
_unique_ss(ss) ==
    Once(LAMBDA include : Masked(ss, include, Len(ss)),
         _unique_from(ss, Eager([j \in 1..Len(ss) |-> TRUE], Len(ss)), 1))

\* The largest s with s^2 dividing n, found by trial division from f on.
RECURSIVE SquarePart(_, _)
SquarePart(n, f) ==
    IF f * f > n THEN 1
    ELSE IF n % (f * f) = 0 THEN f * SquarePart(n \div (f * f), f)
    ELSE SquarePart(n, f + 1)

\* The square-free r with x = s^2 r / t^2, for a rational x > 0.
Radicand(x) ==
    CHOOSE r \in {(x[1] * x[3]) \div (s * s) : s \in {SquarePart(x[1] * x[3], 2)}} : TRUE

\* np.sqrt(x) for a rational x > 0, in Q(sqrt(Radicand(x)))
SqrtIn(x) ==
    CHOOSE y \in {IF (x[1] * x[3]) \div (s * s) = 1 THEN Rat(s, x[3]) ELSE Q2(0, s, x[3]) :
                     s \in {SquarePart(x[1] * x[3], 2)}} : TRUE

\* The sum of the squares of the entries of a (3, 3) array in Q(sqrt D)
SumSquares(D, a) ==
    Add(Add(Add(MulIn(D, a[1][1], a[1][1]), MulIn(D, a[1][2], a[1][2])),
            Add(MulIn(D, a[1][3], a[1][3]), MulIn(D, a[2][1], a[2][1]))),
        Add(Add(MulIn(D, a[2][2], a[2][2]), MulIn(D, a[2][3], a[2][3])),
            Add(Add(MulIn(D, a[3][1], a[3][1]), MulIn(D, a[3][2], a[3][2])),
                MulIn(D, a[3][3], a[3][3]))))

\* The dyads d_i n_i^T of two (k, 3) arrays in Q(sqrt D)
Dyads(D, n, d) ==
    Eager([i \in 1..Len(n) |->
              << <<MulIn(D, d[i][1], n[i][1]), MulIn(D, d[i][1], n[i][2]),
                   MulIn(D, d[i][1], n[i][3])>>,
                 <<MulIn(D, d[i][2], n[i][1]), MulIn(D, d[i][2], n[i][2]),
                   MulIn(D, d[i][2], n[i][3])>>,
                 <<MulIn(D, d[i][3], n[i][1]), MulIn(D, d[i][3], n[i][2]),
                   MulIn(D, d[i][3], n[i][3])>> >>], Len(n))

\* The field of the dyads divided by their norms: the norm of a dyad with
\* rational entries is in Q(sqrt r), r the radicand of its square, and so is
\* the quotient; otherwise both are in the field of the group.
FieldOfUnits(D, ssu) ==
    IF /\ Len(ssu) > 0
       /\ \A i \in 1..Len(ssu) : \A j, k \in 1..3 : ssu[i][j][k][2] = 0
       /\ Radicand(SumSquares(D, ssu[1])) # 1
    THEN Radicand(SumSquares(D, ssu[1])) ELSE D

\* ss / np.linalg.norm(ss, axis=(1, 2)), the entries of ss in Q(sqrt D),
\* those of the quotient in Q(sqrt F)
UnitDyads(D, F, ssu) ==
    LET Unit(a) ==
            CHOOSE r \in {<< <<DivIn(F, a[1][1], nrm), DivIn(F, a[1][2], nrm), DivIn(F, a[1][3], nrm)>>,
                             <<DivIn(F, a[2][1], nrm), DivIn(F, a[2][2], nrm), DivIn(F, a[2][3], nrm)>>,
                             <<DivIn(F, a[3][1], nrm), DivIn(F, a[3][2], nrm), DivIn(F, a[3][3], nrm)>> >> :
                             nrm \in {SqrtIn(SumSquares(D, a))}} : TRUE
    IN  QuatArray(F, Eager([i \in 1..Len(ssu) |-> Unit(ssu[i])], Len(ssu)))

\* SlipGroup._generate_ss(): the dyads d_i n_i^T of the images of d and n
\* under the group, those unique up to sign, each divided by its norm.
_generate_ss(self) ==
    Once(LAMBDA rm :
           Once(LAMBDA nd :
                  Once(LAMBDA ss :
                         Once(LAMBDA ssu :
                                Once(LAMBDA F : UnitDyads(rm.rad, F, ssu),
                                     FieldOfUnits(rm.rad, ssu)),
                              _unique_ss(ss)),
                       Dyads(rm.rad, nd[1], nd[2])),
                <<Images(rm, self.n), Images(rm, self.d)>>),
         rmats(self.csym))

\* SlipGroup(n, d, csym)
SlipGroup(n, d, csym) ==
    Once(LAMBDA self : [n |-> self.n, d |-> self.d, csym |-> self.csym,
                        _schmid |-> _generate_ss(self)],
         [n |-> n, d |-> d, csym |-> csym])

\* np.hstack of a list of (n_g, 3, 3) arrays: they are joined along axis 1,
\* which takes arrays of one length n and gives (n, 3 k, 3).
hstack(arrs) ==
    IF Len(arrs) = 0 \/ \E g \in 1..Len(arrs) : Len(arrs[g]) # Len(arrs[1])
    THEN Raised("ValueError")
    ELSE LET RECURSIVE Joined(_, _)
             Joined(i, g) == IF g = 0 THEN <<>> ELSE Joined(i, g - 1) \o arrs[g][i]
         IN  Returned(Eager([i \in 1..Len(arrs[1]) |-> Joined(i, Len(arrs))], Len(arrs[1])))

\* np.vstack of the list: the arrays joined along axis 0.
vstack(arrs) ==
    IF Len(arrs) = 0
    THEN Raised("ValueError")
    ELSE LET RECURSIVE Joined(_)
             Joined(g) == IF g = 0 THEN <<>> ELSE Joined(g - 1) \o arrs[g]
         IN  Returned(Joined(Len(arrs)))

\* BaseSystem.__init__(matrices) for a 3-dimensional array, which
\* SymmDevSystem inherits: the second and third dimensions are to be 3.
BaseSystem(matrices) ==
    IF \E i \in 1..Len(matrices) :
           Len(matrices[i]) # 3 \/ \E r \in 1..Len(matrices[i]) : Len(matrices[i][r]) # 3
    THEN Raised("ValueError")
    ELSE Returned([_matrices |-> matrices])

\* SlipCrystal(groups, model)
SlipCrystal(grps, model) ==
    LET stacked == CHOOSE r \in {hstack([g \in 1..Len(grps) |-> grps[g]._schmid.data])} : TRUE
        td == CHOOSE r \in {IF stacked.raised # "none" THEN stacked
                            ELSE BaseSystem(stacked.val)} : TRUE
    IN  IF td.raised # "none" THEN td
        ELSE Returned([groups |-> grps, model |-> model, _schmid_td |-> td.val])

\* SlipCrystal.schmid
SlipCrystal_schmid(self) == self._schmid_td._matrices

\* SlipCrystal.num_slipsys
num_slipsys(self) == Len(SlipCrystal_schmid(self))

----------------------------------------------------------------------------
(* utils/unique_vectors.py.  Entries are rationals <<p, 0, q>>; an (n, k)  *)
(* array is [nc |-> k, data |-> its rows]; indices are the code's plus 1.  *)

DEFAULT_TOL == Rat(1, 100000000)

\* x < y, x > y for rationals
Less(x, y) == x[1] * y[3] < y[1] * x[3]
Greater(x, y) == Less(y, x)

\* np.argsort(col): the indices that sort col, equal values in the order
\* they have in col (any order of equal values gives the same ranks).
argsort(col) ==
    LET Pos(i) == Cardinality({k \in 1..Len(col) : Less(col[k], col[i])})
                      + Cardinality({k \in 1..(i - 1) : col[k] = col[i]}) + 1
        pos == Eager([i \in 1..Len(col) |-> Pos(i)], Len(col))
    IN  Eager([p \in 1..Len(col) |-> CHOOSE i \in 1..Len(col) : pos[i] = p], Len(col))

\* The loop over the sorted column: rnk[i] is rnk[i-1], one more if srt[i]
\* and srt[i-1] differ by more than tol.
RECURSIVE _rnk(_, _, _)
_rnk(srt, tol, i) ==
    IF i = 1 THEN <<0>>
    ELSE CHOOSE r \in {Append(prev, IF Greater(<<Abs(d[1]), 0, d[3]>>, tol)
                                    THEN prev[i - 1] + 1 ELSE prev[i - 1]) :
                          prev \in {_rnk(srt, tol, i - 1)},
                          d \in {Sub(srt[i], srt[i - 1])}} : TRUE

\* _to_ranks(a, tol): the rows of per-column ranks, for an array of at
\* least one row.
_to_ranks(a, tol) ==
    LET nr == Len(a.data)
        Column(j) ==
            CHOOSE c \in
              {CHOOSE r \in {Eager([i \in 1..nr |-> rnk[inv[i]]], nr) :
                               rnk \in {_rnk(Eager([i \in 1..nr |-> a.data[ind[i]][j]], nr),
                                             tol, nr)},
                               inv \in {argsort(Eager([i \in 1..nr |-> Num(ind[i])], nr))}} : TRUE :
                 ind \in {argsort(Eager([i \in 1..nr |-> a.data[i][j]], nr))}} : TRUE
        cols == Eager([j \in 1..a.nc |-> Column(j)], a.nc)
    IN  Eager([i \in 1..nr |-> Eager([j \in 1..a.nc |-> cols[j][i]], a.nc)], nr)

\* r < s in the lexicographic order of integer rows
RECURSIVE LexLess(_, _, _)
LexLess(r, s, j) ==
    /\ j <= Len(r)
    /\ \/ r[j] < s[j]
       \/ r[j] = s[j] /\ LexLess(r, s, j + 1)

\* np.unique(arank, axis=0, return_index=True, return_inverse=True): the
\* distinct rows in lexicographic order, for each the index of its first
\* occurrence, and for each row of arank the index of its equal.
np_unique(arank) ==
    LET rows == {arank[i] : i \in 1..Len(arank)}
        Pos(r) == Cardinality({s \in rows : LexLess(s, r, 1)}) + 1
        uniq == Eager([p \in 1..Cardinality(rows) |-> CHOOSE r \in rows : Pos(r) = p],
                      Cardinality(rows))
    IN  [unique |-> uniq,
         index |-> Eager([p \in 1..Len(uniq) |->
                             CHOOSE i \in 1..Len(arank) :
                                 /\ arank[i] = uniq[p]
                                 /\ \A k \in 1..(i - 1) : arank[k] # uniq[p]], Len(uniq)),
         inverse |-> Eager([i \in 1..Len(arank) |-> Pos(arank[i])], Len(arank))]

\* unique_vectors(a, tol, return_index, return_inverse).  With no row and
\* a column, _to_ranks assigns rnk[0] in an array of length 0.
unique_vectors(a, tol, return_index, return_inverse) ==
    IF Len(a.data) = 0 /\ a.nc > 0 THEN Raised("IndexError")
    ELSE LET out == CHOOSE o \in {np_unique(_to_ranks(a, tol))} : TRUE
             u == [nc |-> a.nc,
                   data |-> Eager([p \in 1..Len(out.index) |-> a.data[out.index[p]]],
                                  Len(out.index))]
             ret == <<u>> \o (IF return_index THEN <<out.index>> ELSE <<>>)
                          \o (IF return_inverse THEN <<out.inverse>> ELSE <<>>)
         IN  Returned(IF Len(ret) = 1 THEN u ELSE ret)

----------------------------------------------------------------------------
(* utils/tensor_data: from_parts, to_components, to_matrices.              *)
(*                                                                         *)
(* Numbers.  SymmDevSystem uses sqrt(2) and sqrt(3) together: here the     *)
(* tuple <<a, b, c, e, d>> is (a + b sqrt2 + c sqrt3 + e sqrt6) / d, with  *)
(* d > 0 and the gcd of the five 1.  An ndarray is Array(ndim, data), data *)
(* the sequence of its entries along axis 0.                               *)

Surd(a, b, c, e, d) ==
    CHOOSE q \in {<<x[1] \div g, x[2] \div g, x[3] \div g, x[4] \div g, x[5] \div g>> :
                     g \in {GCD(GCD(GCD(Abs(x[1]), Abs(x[2])), GCD(Abs(x[3]), Abs(x[4]))),
                                Abs(x[5])) * (IF x[5] < 0 THEN -1 ELSE 1) :
                               x \in {<<a, b, c, e, d>>}},
                     x \in {<<a, b, c, e, d>>}} : TRUE

SRat(n, d) == Surd(n, 0, 0, 0, d)
SZero == <<0, 0, 0, 0, 1>>
SAdd(x, y) ==
    CHOOSE q \in {IF u = SZero THEN v
                  ELSE IF v = SZero THEN u
                  ELSE Surd(u[1] * v[5] + v[1] * u[5], u[2] * v[5] + v[2] * u[5],
                            u[3] * v[5] + v[3] * u[5], u[4] * v[5] + v[4] * u[5],
                            u[5] * v[5]) : u \in {x}, v \in {y}} : TRUE
SNeg(x) == CHOOSE q \in {<<-u[1], -u[2], -u[3], -u[4], u[5]>> : u \in {x}} : TRUE
SSub(x, y) == SAdd(x, SNeg(y))
SMul(x, y) ==
    CHOOSE q \in {IF u = SZero \/ v = SZero THEN SZero
                  ELSE Surd(u[1] * v[1] + 2 * u[2] * v[2] + 3 * u[3] * v[3] + 6 * u[4] * v[4],
                            u[1] * v[2] + u[2] * v[1] + 3 * (u[3] * v[4] + u[4] * v[3]),
                            u[1] * v[3] + u[3] * v[1] + 2 * (u[2] * v[4] + u[4] * v[2]),
                            u[1] * v[4] + u[4] * v[1] + u[2] * v[3] + u[3] * v[2],
                            u[5] * v[5]) : u \in {x}, v \in {y}} : TRUE

\* BaseSystem._s2, _s2i, _s3, _s3i
BaseSystem_s2 == <<0, 1, 0, 0, 1>>
BaseSystem_s2i == <<0, 1, 0, 0, 2>>
BaseSystem_s3 == <<0, 0, 1, 0, 1>>
BaseSystem_s3i == <<0, 0, 1, 0, 3>>

\* to_components of VoigtSystem (f = 0.5) and of MandelSystem (f = _s2i):
\* the 9 components of each matrix of an (n, 3, 3) array.
Scaled_to_components(f, matrices) ==
    LET Row(m) == <<m[1][1], m[2][2], m[3][3],
                    SMul(f, SAdd(m[2][3], m[3][2])),
                    SMul(f, SAdd(m[1][3], m[3][1])),
                    SMul(f, SAdd(m[1][2], m[2][1])),
                    SMul(f, SSub(m[3][2], m[2][3])),
                    SMul(f, SSub(m[1][3], m[3][1])),
                    SMul(f, SSub(m[2][1], m[1][2]))>>
    IN  Eager([i \in 1..Len(matrices) |-> Row(matrices[i])], Len(matrices))

\* to_matrices of VoigtSystem (g = 1) and of MandelSystem (g = _s2i)
Scaled_to_matrices(g, components) ==
    LET Row(cm) == << <<cm[1], SMul(g, SSub(cm[6], cm[9])), SMul(g, SAdd(cm[5], cm[8]))>>,
                      <<SMul(g, SAdd(cm[9], cm[6])), cm[2], SMul(g, SSub(cm[4], cm[7]))>>,
                      <<SMul(g, SSub(cm[5], cm[8])), SMul(g, SAdd(cm[7], cm[4])), cm[3]>> >>
    IN  Eager([i \in 1..Len(components) |-> Row(components[i])], Len(components))

\* SymmDevSystem.to_components
SymmDev_to_components(matrices) ==
    LET s == BaseSystem_s2i
        Row(m) == <<SMul(BaseSystem_s3i, SAdd(SAdd(m[1][1], m[2][2]), m[3][3])),
                    SMul(s, SSub(m[1][1], m[2][2])),
                    SMul(s, SSub(m[1][1], m[3][3])),
                    SMul(s, SAdd(m[2][3], m[3][2])),
                    SMul(s, SAdd(m[1][3], m[3][1])),
                    SMul(s, SAdd(m[1][2], m[2][1])),
                    SMul(s, SSub(m[3][2], m[2][3])),
                    SMul(s, SSub(m[1][3], m[3][1])),
                    SMul(s, SSub(m[2][1], m[1][2]))>>
    IN  Eager([i \in 1..Len(matrices) |-> Row(matrices[i])], Len(matrices))

\* SymmDevSystem.to_matrices with m11 taken for m22 and m33.
SymmDev_to_matrices_m11(components) ==
    LET g == BaseSystem_s2i
        Row(cm) ==
            CHOOSE r \in
              {<< <<m11, SMul(g, SSub(cm[6], cm[9])), SMul(g, SAdd(cm[5], cm[8]))>>,
                  <<SMul(g, SAdd(cm[9], cm[6])), m11, SMul(g, SSub(cm[4], cm[7]))>>,
                  <<SMul(g, SSub(cm[5], cm[8])), SMul(g, SAdd(cm[7], cm[4])), m11>> >> :
                 m11 \in {SMul(SRat(1, 3),
                               SAdd(SAdd(SMul(BaseSystem_s3, cm[1]), SMul(BaseSystem_s2, cm[2])),
                                    SMul(BaseSystem_s2, cm[3])))}} : TRUE
    IN  Eager([i \in 1..Len(components) |-> Row(components[i])], Len(components))

\* SymmDevSystem.to_matrices
SymmDev_to_matrices(components) ==
    LET g == BaseSystem_s2i
        Row(cm) ==
            CHOOSE r \in
              {<< <<m11, SMul(g, SSub(cm[6], cm[9])), SMul(g, SAdd(cm[5], cm[8]))>>,
                  <<SMul(g, SAdd(cm[9], cm[6])), SSub(m11, SMul(BaseSystem_s2, cm[2])),
                    SMul(g, SSub(cm[4], cm[7]))>>,
                  <<SMul(g, SSub(cm[5], cm[8])), SMul(g, SAdd(cm[7], cm[4])),
                    SSub(m11, SMul(BaseSystem_s2, cm[3]))>> >> :
                 m11 \in {SMul(SRat(1, 3),
                               SAdd(SAdd(SMul(BaseSystem_s3, cm[1]), SMul(BaseSystem_s2, cm[2])),
                                    SMul(BaseSystem_s2, cm[3])))}} : TRUE
    IN  Eager([i \in 1..Len(components) |-> Row(components[i])], Len(components))

\* The component systems; Sys.to_components, Sys.to_matrices
Systems == {"Mandel", "Voigt", "SymmDev"}

to_components(Sys, matrices) ==
    CASE Sys = "Voigt" -> Scaled_to_components(SRat(1, 2), matrices)
      [] Sys = "Mandel" -> Scaled_to_components(BaseSystem_s2i, matrices)
      [] Sys = "SymmDev" -> SymmDev_to_components(matrices)

to_matrices(Sys, components) ==
    CASE Sys = "Voigt" -> Scaled_to_matrices(SRat(1, 1), components)
      [] Sys = "Mandel" -> Scaled_to_matrices(BaseSystem_s2i, components)
      [] Sys = "SymmDev" -> SymmDev_to_matrices(components)

\* The shape of an array of 1 to 3 dimensions with at least one entry
\* along each.
Shape(arr) ==
    CASE arr.ndim = 1 -> <<Len(arr.data)>>
      [] arr.ndim = 2 -> <<Len(arr.data), Len(arr.data[1])>>
      [] arr.ndim = 3 -> <<Len(arr.data), Len(arr.data[1]), Len(arr.data[1][1])>>

\* _check_part(part, dim) that takes 2-dimensional arrays only.  (dim is 0
\* for the default None.)
_check_part_2d(part, dim) ==
    IF part = None THEN Returned(0)
    ELSE IF dim = 0
    THEN (IF part.ndim > 1 THEN Raised("ValueError") ELSE Returned(Len(part.data)))
    ELSE IF part.ndim # 2 THEN Raised("ValueError")
    ELSE IF Shape(part)[2] # dim THEN Raised("ValueError")
    ELSE Returned(Shape(part)[1])

\* BaseSystem._check_part(part, dim): the length of the part, dim being 0
\* for the default None; np.atleast_2d makes a 1-dimensional array of
\* length L an array of shape (1, L).
_check_part(part, dim) ==
    IF part = None THEN Returned(0)
    ELSE IF dim = 0
    THEN (IF part.ndim > 1 THEN Raised("ValueError") ELSE Returned(Len(part.data)))
    ELSE IF part.ndim > 2 THEN Raised("ValueError")
    ELSE LET shape == IF part.ndim = 1 THEN <<1, Len(part.data)>> ELSE Shape(part)
         IN  IF shape[2] # dim THEN Raised("ValueError") ELSE Returned(shape[1])

\* part.reshape((len, dim)) of a checked part, np.zeros((len, dim)) of a
\* part not given: the rows.
Reshaped(part, len, dim) ==
    IF part = None THEN [i \in 1..len |-> [j \in 1..dim |-> SZero]]
    ELSE IF part.ndim = 1 /\ dim = 1 THEN [i \in 1..len |-> <<part.data[i]>>]
    ELSE IF part.ndim = 1 THEN <<part.data>>
    ELSE part.data

Max(S) == CHOOSE x \in S : \A y \in S : y <= x

\* VoigtSystem.from_parts(symm, skew) and SymmDevSystem.from_parts(symmdev,
\* skew, sph): the parts are checked, those not given are zero, all are to
\* have one length, and the matrices are to_matrices of the rows of
\* components stacked side by side.  parts is the sequence of <<part,
\* dim>> in the order of the checks, order the columns the parts take in
\* the components.
Checked_from_parts(Sys, parts, order) ==
    LET lens == [p \in 1..Len(parts) |-> _check_part(parts[p][1], parts[p][2])]
    IN  IF \E p \in 1..Len(parts) : lens[p].raised # "none" THEN Raised("ValueError")
        ELSE LET len == Max({lens[p].val : p \in 1..Len(parts)})
                 Dim(p) == IF parts[p][2] = 0 THEN 1 ELSE parts[p][2]
                 Rows(p) == Reshaped(parts[p][1], len, Dim(p))
                 RECURSIVE Side(_, _)
                 Side(i, k) == IF k = 0 THEN <<>> ELSE Side(i, k - 1) \o Rows(order[k])[i]
             IN  IF len = 0 THEN Raised("ValueError")
                 ELSE IF \E p \in 1..Len(parts) : lens[p].val # 0 /\ lens[p].val # len
                 THEN Raised("ValueError")
                 ELSE CHOOSE t \in
                        {Returned([cls |-> Sys, _matrices |-> to_matrices(Sys, comps),
                                   _components |-> comps]) :
                           comps \in {Eager([i \in 1..len |-> Side(i, Len(order))], len)}} : TRUE

Voigt_from_parts(symm, skew) ==
    Checked_from_parts("Voigt", << <<symm, 6>>, <<skew, 3>> >>, <<1, 2>>)

SymmDev_from_parts(symmdev, skew, sph) ==
    Checked_from_parts("SymmDev", << <<symmdev, 5>>, <<skew, 3>>, <<sph, 0>> >>, <<3, 1, 2>>)

\* MandelSystem._check_parts(symm, skew)
Mandel__check_parts(symm, skew) ==
    LET Shape2(p) == IF p.ndim = 1 THEN <<1, Len(p.data)>> ELSE Shape(p)
        Bad(p, dim) == p # None /\ (p.ndim > 2 \/ Shape2(p)[2] # dim)
    IN  IF Bad(symm, 6) THEN Raised("ValueError")
        ELSE IF Bad(skew, 3) THEN Raised("ValueError")
        ELSE IF symm # None /\ skew # None /\ Shape2(symm)[1] # Shape2(skew)[1]
        THEN Raised("ValueError")
        ELSE IF symm = None /\ skew = None THEN Raised("ValueError")
        ELSE Returned(IF symm # None THEN Shape2(symm)[1] ELSE Shape2(skew)[1])

\* MandelSystem.from_parts(symm, skew): the parts are not reshaped; np.hstack
\* of a 1-dimensional and a 2-dimensional array is a ValueError, that of two
\* 1-dimensional arrays is 1-dimensional and to_matrices an IndexError on it.
\* The tensor is a BaseSystem.
Mandel_from_parts(symm, skew) ==
    LET len == Mandel__check_parts(symm, skew)
        sy == IF symm = None THEN Array(2, [i \in 1..len.val |-> [j \in 1..6 |-> SZero]]) ELSE symm
        sk == IF skew = None THEN Array(2, [i \in 1..len.val |-> [j \in 1..3 |-> SZero]]) ELSE skew
    IN  IF len.raised # "none" THEN len
        ELSE IF sy.ndim # sk.ndim THEN Raised("ValueError")
        ELSE IF sy.ndim = 1 THEN Raised("IndexError")
        ELSE CHOOSE t \in
               {Returned([cls |-> "BaseSystem", _matrices |-> to_matrices("Mandel", comps),
                          _components |-> comps]) :
                  comps \in {Eager([i \in 1..len.val |-> sy.data[i] \o sk.data[i]], len.val)}} : TRUE

\* Sys.from_parts(**parts), parts being a record of the keyword arguments
\* (None for one not given).
from_parts(Sys, parts) ==
    CASE Sys = "Voigt" -> Voigt_from_parts(parts.symm, parts.skew)
      [] Sys = "Mandel" -> Mandel_from_parts(parts.symm, parts.skew)
      [] Sys = "SymmDev" -> SymmDev_from_parts(parts.symmdev, parts.skew, parts.sph)

\* ms.symm, ms.skew, ms.symmdev, ms.sph of a tensor of the system: slices
\* of its components.
PartOf(Sys, components, name) ==
    LET n == Len(components)
        Cols(a, b) == Array(2, Eager([i \in 1..n |-> SubSeq(components[i], a, b)], n))
    IN  CASE name = "symm" -> Cols(1, 6)
          [] name = "symmdev" -> Cols(2, 6)
          [] name = "skew" -> Cols(7, 9)
          [] name = "sph" -> Array(1, Eager([i \in 1..n |-> components[i][1]], n))

----------------------------------------------------------------------------
(* slip/slip_models.  A model is the record of its class, its params and   *)
(* its attribute _gammadot_max, which the object lacks until gammadot_max  *)
(* is read or assigned.  Numbers are rationals; a state or stress array    *)
(* is the sequence of its rows, one for each point.                        *)

Absent == [t |-> "absent"]
NoMax == [t |-> "None"]
Float(x) == [t |-> "float", v |-> x]

\* AF_SingleHardness(params), AF_ZeroBackStress(params),
\* ArmstrongFrederick(params)
SlipModel(cls, params) == [cls |-> cls, params |-> params, _gammadot_max |-> Absent]

\* The property gammadot_max: the model after the read, which has the
\* attribute; what is read is its _gammadot_max.
gammadot_max(self) ==
    IF self._gammadot_max.t = "absent" THEN [self EXCEPT !._gammadot_max = NoMax] ELSE self

\* model.gammadot_max = v
set_gammadot_max(self, v) == [self EXCEPT !._gammadot_max = v]

np_abs(x) == IF x[1] < 0 THEN Neg(x) ELSE x
np_sign(x) == IF x[1] < 0 THEN Neg(One) ELSE IF x[1] > 0 THEN One ELSE Zero

\* np.minimum with the first argument returned whatever the second.
np_minimum_first(x, y) == x

np_minimum(x, y) == IF Less(y, x) THEN y ELSE x

\* np.power(x, e) for x >= 0 and the exponents 1, 2 and 1/2, the last of a
\* square of a rational.
np_power(x, e) ==
    CASE e = One -> x
      [] e = Two -> Mul(x, x)
      [] e = Half -> IF x = Zero THEN Zero ELSE Sqrt(x)

\* The end of the three gamma_dots, for one slip system of one point: nrm is
\* |driving stress / hardness|, capped where gammadot_max is not None.
_gamma_dot(self, nrm, dsig) ==
    LET gamdot0 == self.params.gamma_dot_0
        gamdot_max == gammadot_max(self)._gammadot_max
        n == Div(One, self.params.m)
        capped == IF gamdot_max.t # "None"
                  THEN np_minimum(nrm, np_power(Div(gamdot_max.v, gamdot0), self.params.m))
                  ELSE nrm
    IN  Mul(Mul(gamdot0, np_power(capped, n)), np_sign(dsig))

\* What a method leaves behind: its value, the model, and the arrays it was
\* passed.  No statement of the methods assigns into an array or to params.
Left(val, self, state_var, other) ==
    [val |-> val, self |-> self, state_var |-> state_var, other |-> other]

\* AF_SingleHardness.gamma_dots(state_var, rss): state_var (npts), rss
\* (npts, nslip)
AF_SingleHardness_gamma_dots(self, state_var, rss) ==
    Left(Eager([p \in 1..Len(rss) |->
                   Eager([k \in 1..Len(rss[p]) |->
                             _gamma_dot(self, np_abs(Div(rss[p][k], state_var[p])), rss[p][k])],
                         Len(rss[p]))], Len(rss)),
         gammadot_max(self), state_var, rss)

\* AF_ZeroBackStress.gamma_dots(state_var, rss): both (npts, nslip)
AF_ZeroBackStress_gamma_dots(self, state_var, rss) ==
    Left(Eager([p \in 1..Len(rss) |->
                   Eager([k \in 1..Len(rss[p]) |->
                             _gamma_dot(self, np_abs(Div(rss[p][k], state_var[p][k])),
                                        rss[p][k])],
                         Len(rss[p]))], Len(rss)),
         gammadot_max(self), state_var, rss)

\* ArmstrongFrederick.gamma_dots(state_var, rss): state_var (npts, 2 nslip),
\* the hardnesses before the backstresses
ArmstrongFrederick_gamma_dots(self, state_var, rss) ==
    LET g(p, k) == state_var[p][k]
        chi(p, k) == state_var[p][Len(state_var[p]) \div 2 + k]
        dsig(p, k) == Sub(rss[p][k], chi(p, k))
    IN  Left(Eager([p \in 1..Len(rss) |->
                       Eager([k \in 1..Len(rss[p]) |->
                                 _gamma_dot(self, np_abs(Div(dsig(p, k), g(p, k))), dsig(p, k))],
                             Len(rss[p]))], Len(rss)),
             gammadot_max(self), state_var, rss)

gamma_dots(self, state_var, rss) ==
    CASE self.cls = "AF_SingleHardness" -> AF_SingleHardness_gamma_dots(self, state_var, rss)
      [] self.cls = "AF_ZeroBackStress" -> AF_ZeroBackStress_gamma_dots(self, state_var, rss)
      [] self.cls = "ArmstrongFrederick" -> ArmstrongFrederick_gamma_dots(self, state_var, rss)

\* np.abs(gamdot).sum(1) at point p
RECURSIVE sum_abs(_, _)
sum_abs(row, k) == IF k = 0 THEN Zero ELSE Add(sum_abs(row, k - 1), np_abs(row[k]))

\* AF_SingleHardness.state_derivative(state_var, gamdot): an (npts) array
AF_SingleHardness_state_derivative(self, state_var, gamdot) ==
    Left(Eager([p \in 1..Len(gamdot) |->
                   Mul(Sub(self.params.H, Mul(self.params.H_d, state_var[p])),
                       sum_abs(gamdot[p], Len(gamdot[p])))], Len(gamdot)),
         self, state_var, gamdot)

\* The hardness derivative of the models with latent hardening
_gdot(self, g, row, k) ==
    LET sgdot == sum_abs(row, Len(row))
        qii_fac == Sub(self.params.q12, One)
        direct == Mul(self.params.H,
                      Sub(Mul(self.params.q12, sgdot), Mul(qii_fac, np_abs(row[k]))))
        dynamic == Mul(Mul(self.params.H_d, g), sgdot)
    IN  Sub(direct, dynamic)

\* AF_ZeroBackStress.state_derivative(state_var, gamdot)
AF_ZeroBackStress_state_derivative(self, state_var, gamdot) ==
    Left(Eager([p \in 1..Len(gamdot) |->
                   Eager([k \in 1..Len(gamdot[p]) |->
                             _gdot(self, state_var[p][k], gamdot[p], k)], Len(gamdot[p]))],
               Len(gamdot)),
         self, state_var, gamdot)

\* ArmstrongFrederick.state_derivative(state_var, gamdot): the hardness
\* derivatives before the backstress derivatives
ArmstrongFrederick_state_derivative(self, state_var, gamdot) ==
    LET ns(p) == Len(state_var[p]) \div 2
        chidot(p, k) ==
            Sub(Mul(self.params.A, gamdot[p][k]),
                Mul(Mul(self.params.A_d, state_var[p][ns(p) + k]), np_abs(gamdot[p][k])))
    IN  Left(Eager([p \in 1..Len(gamdot) |->
                       Eager([k \in 1..(2 * ns(p)) |->
                                 IF k <= ns(p)
                                 THEN _gdot(self, state_var[p][k], gamdot[p], k)
                                 ELSE chidot(p, k - ns(p))], 2 * ns(p))],
                   Len(gamdot)),
             self, state_var, gamdot)

state_derivative(self, state_var, gamdot) ==
    CASE self.cls = "AF_SingleHardness" ->
             AF_SingleHardness_state_derivative(self, state_var, gamdot)
      [] self.cls = "AF_ZeroBackStress" ->
             AF_ZeroBackStress_state_derivative(self, state_var, gamdot)
      [] self.cls = "ArmstrongFrederick" ->
             ArmstrongFrederick_state_derivative(self, state_var, gamdot)

----------------------------------------------------------------------------
(* materials_database.  A YAML mapping is a function of its keys; a       *)
(* loader is the record of its attribute yaml_d.                           *)

\* base_loader.registry after the import of loaders: the processes that
\* have a loader class
loader_registry == {"linear_elasticity"}

\* loaders.get_loader(process_name)
get_loader(process_name) ==
    IF process_name \in loader_registry THEN Returned(process_name) ELSE Raised("KeyError")

\* LinearElasticMaterial(entry)
LinearElasticMaterial(entry) == [cls |-> "LinearElasticMaterial", yaml_d |-> entry]

\* MaterialsDataBase.get_material(process, name), processes being
\* self.processes
get_material(processes, process, name) ==
    IF process \notin DOMAIN processes THEN Raised("KeyError")
    ELSE IF get_loader(process).raised # "none" THEN get_loader(process)
    ELSE IF name \notin DOMAIN processes[process] THEN Raised("KeyError")
    ELSE Returned(LinearElasticMaterial(processes[process][name]))

\* LinearElasticMaterial.symmetry_to_use
symmetry_to_use(self) ==
    IF self.yaml_d.symmetry \in {"triclinic", "isotropic", "cubic", "hexagonal"}
    THEN self.yaml_d.symmetry ELSE "triclinic"

\* LinearElasticMaterial.cij: mod[c] of a key the mapping lacks is a
\* KeyError; the isotropic branch with neither pair of keys assigns nothing
\* and `return cij` is an UnboundLocalError.
LinearElasticMaterial_cij(self) ==
    LET mod == self.yaml_d.moduli
        symm2use == symmetry_to_use(self)
        Listed(keys) == IF \E k \in 1..Len(keys) : keys[k] \notin DOMAIN mod
                        THEN Raised("KeyError")
                        ELSE Returned([k \in 1..Len(keys) |-> mod[keys[k]]])
    IN  CASE symm2use = "triclinic" ->
               IF "cij" \in DOMAIN mod THEN Returned(mod.cij) ELSE Raised("KeyError")
          [] symm2use = "isotropic" ->
               IF "c11" \in DOMAIN mod /\ "c12" \in DOMAIN mod
               THEN Returned(<<mod.c11, mod.c12>>)
               ELSE IF "E" \in DOMAIN mod /\ "nu" \in DOMAIN mod
               THEN Returned(Moduli_cij(Isotropic_from_E_nu(mod.E, mod.nu).moduli))
               ELSE Raised("UnboundLocalError")
          [] symm2use = "cubic" -> Listed(<<"c11", "c12", "c44">>)
          [] symm2use = "hexagonal" -> Listed(<<"c11", "c12", "c13", "c44", "c66">>)

\* LinearElasticMaterial.single_crystal: SingleCrystal(symmetry_to_use, cij,
\* name=..., input_system=system, input_units=units) with the defaults
\* for the output; a cij that is None cannot be unpacked (TypeError).
LinearElasticMaterial_single_crystal(self) ==
    LET cij == CHOOSE c \in {LinearElasticMaterial_cij(self)} : TRUE
    IN  IF cij.raised # "none" THEN cij
        ELSE IF cij.val = NoModuli THEN Raised("TypeError")
        ELSE Returned(SingleCrystal(symmetry_to_use(self), cij.val, StrVal(self.yaml_d.system),
                                    StrVal("MANDEL"), self.yaml_d.units, DEFAULT_UNITS))

----------------------------------------------------------------------------
(* The state machine: one object is constructed, then its setters are used *)

Now == World(crystal, moduli, stiffness)

LastOp(op, arg, raised, pre) == [op |-> op, arg |-> arg, raised |-> raised, pre |-> pre]

Init ==
    \E c \in Constructions :
        /\ kind = c.kind
        /\ crystal = c.world.crystal
        /\ moduli = c.world.moduli
        /\ stiffness = c.world.stiffness
        /\ origin = c
        /\ last = LastOp("construct", None, "none", c.world)
        /\ symmetries = <<>>    \* crystalsymmetry is not imported
        /\ registry = <<>>
        /\ groups = <<>>

\* sm.system = v on a StiffnessMatrix
SetStiffnessSystem(v) ==
    /\ kind = "matrix"
    /\ \E r \in {StiffnessSetSystem(stiffness, v)} :
           /\ stiffness' = r.obj
           /\ last' = LastOp("system", v, r.raised, Now)
    /\ UNCHANGED <<groups, symmetries, registry, kind, moduli, crystal, origin>>

\* sm.units = u on a StiffnessMatrix
SetStiffnessUnits(u) ==
    /\ kind = "matrix"
    /\ stiffness' = StiffnessSetUnits(stiffness, u)
    /\ last' = LastOp("units", u, "none", Now)
    /\ UNCHANGED <<groups, symmetries, registry, kind, moduli, crystal, origin>>

\* handler.system = v on a moduli handler
SetModuliSystem(v) ==
    /\ kind = "moduli"
    /\ \E r \in {Moduli_set_system(Owned(moduli, stiffness), v)} :
           /\ moduli' = r.obj.moduli
           /\ stiffness' = r.obj.stiffness
           /\ last' = LastOp("system", v, r.raised, Now)
    /\ UNCHANGED <<groups, symmetries, registry, kind, crystal, origin>>

\* sx.output_system = v on a SingleCrystal
SetOutputSystem(v) ==
    /\ kind = "crystal"
    /\ \E r \in {Crystal_set_output_system(Now, v)} :
           /\ crystal' = r.obj.crystal
           /\ moduli' = r.obj.moduli
           /\ stiffness' = r.obj.stiffness
           /\ last' = LastOp("system", v, r.raised, Now)
    /\ UNCHANGED <<groups, symmetries, registry, kind, origin>>

\* sx.output_units = u on a SingleCrystal
SetOutputUnits(u) ==
    /\ kind = "crystal"
    /\ \E w \in {Crystal_set_output_units(Now, u)} :
           /\ crystal' = w.crystal
           /\ moduli' = w.moduli
           /\ stiffness' = w.stiffness
           /\ last' = LastOp("units", u, "none", Now)
    /\ UNCHANGED <<groups, symmetries, registry, kind, origin>>

\* A call of apply_stiffness or apply_compliance: as LastOp, with what it
\* returned and, where its argument was the result of a call, that call.
LastCall(op, arg, raised, pre, res, of) ==
    [op |-> op, arg |-> arg, raised |-> raised, pre |-> pre, res |-> res, of |-> of]

\* sx.apply_stiffness(eps, rmat) on a SingleCrystal
ApplyStiffness(eps, rmat) ==
    /\ kind = "crystal"
    /\ \E r \in {apply_stiffness(Now, eps, rmat)} :
           last' = LastCall("apply_stiffness", [eps |-> eps, rmat |-> rmat],
                            r.raised, Now, r, None)
    /\ UNCHANGED <<groups, symmetries, registry, kind, stiffness, moduli, crystal, origin>>

\* sx.apply_compliance(sig, rmat) on a SingleCrystal, sig being the stress
\* the call before returned.
ApplyCompliance(rmat) ==
    /\ kind = "crystal"
    /\ last.op = "apply_stiffness"
    /\ last.raised = "none"
    /\ \E r \in {apply_compliance(Now, last.res.val, rmat)} :
           last' = LastCall("apply_compliance",
                            [sig |-> last.res.val, rmat |-> rmat],
                            r.raised, Now, r, last.arg)
    /\ UNCHANGED <<groups, symmetries, registry, kind, stiffness, moduli, crystal, origin>>

\* The rotations handed to apply_compliance: those handed to the
\* apply_stiffness before it, or one rotation more than there are stresses.
ComplianceRotations ==
    IF last.op = "apply_stiffness" /\ last.raised = "none"
    THEN {last.arg.rmat, Array(3, Stack(Rotation, Len(last.res.val.data) + 1))}
    ELSE {}

\* SingleCrystal._change_basis(mat, rot), a static method
ChangeBasis(mat, rot) ==
    /\ kind = "crystal"
    /\ \E r \in {_change_basis(mat, rot)} :
           last' = LastCall("_change_basis", [mat |-> mat, rot |-> rot],
                            r.raised, Now, r, None)
    /\ UNCHANGED <<groups, symmetries, registry, kind, stiffness, moduli, crystal, origin>>

\* The programs that assign recognized systems only: a member to a matrix
\* or a handler, a member or its name to a crystal.
Next ==
    \/ \E v \in MatrixComponentSystem : SetStiffnessSystem(v)
    \/ \E u \in Units : SetStiffnessUnits(u)
    \/ \E v \in MatrixComponentSystem : SetModuliSystem(v)
    \/ \E v \in MatrixComponentSystem \cup SystemNames : SetOutputSystem(v)
    \/ \E u \in Units : SetOutputUnits(u)

Spec == Init /\ [][Next]_vars

\* The programs that assign any value.
NextAny ==
    \/ \E v \in SystemValues : SetStiffnessSystem(v)
    \/ \E u \in Units : SetStiffnessUnits(u)
    \/ \E v \in SystemValues : SetModuliSystem(v)
    \/ \E v \in SystemValues : SetOutputSystem(v)
    \/ \E u \in Units : SetOutputUnits(u)

SpecAny == Init /\ [][NextAny]_vars

\* The programs that hold an isotropic, cubic or hexagonal SingleCrystal
\* built with the constructor's default input system, assign it output
\* systems and apply its stiffness and compliance.
InitApply ==
    /\ Init
    /\ kind = "crystal"
    /\ crystal.symm \in {"isotropic", "cubic", "hexagonal"}
    /\ origin.args.input_system = StrVal("VOIGT_GAMMA")

NextApply ==
    \/ \E v \in MatrixComponentSystem : SetOutputSystem(v)
    \/ \E eps \in StrainInputs : \E rmat \in RotationInputs(eps) : ApplyStiffness(eps, rmat)
    \/ \E rmat \in ComplianceRotations : ApplyCompliance(rmat)
    \/ \E mat \in StrainInputs : \E rot \in RotationInputs(mat) :
           mat.ndim = 3 /\ ChangeBasis(mat, rot)

SpecApply == InitApply /\ [][NextApply]_vars

----------------------------------------------------------------------------
(* The programs that import crystalsymmetry *)

\* CrystalSymmetry objects a program constructs beyond the imported ones
MaxConstructed == 2

\* The state after `import crystalsymmetry`: the five module-level
\* constructions, each registered under its name.
InitImported ==
    /\ kind = "orientations"
    /\ stiffness = NoObject
    /\ moduli = NoObject
    /\ crystal = NoObject
    /\ origin = None
    /\ symmetries = Imported
    /\ registry = [k \in 1..Len(Imported) |-> [key |-> Imported[k]._name, value |-> k]]
    /\ groups = <<>>
    /\ last = LastCall("import", None, "none", None, None, None)

\* CrystalSymmetry(name, qsymm)
Construct(name, qsymm) ==
    /\ kind = "orientations"
    /\ Len(symmetries) < Len(Imported) + MaxConstructed
    /\ symmetries' = Append(symmetries, CrystalSymmetry(name, qsymm))
    /\ registry' = _Registry_register(registry, name, Len(symmetries) + 1)
    /\ last' = LastCall("CrystalSymmetry", [name |-> name, qsymm |-> qsymm], "none",
                        registry, Returned(Len(symmetries) + 1), None)
    /\ UNCHANGED <<groups, kind, stiffness, moduli, crystal, origin>>

\* get_symmetries(name)
GetSymmetries(name) ==
    /\ kind = "orientations"
    /\ \E r \in {_Registry_get(registry, name)} :
           last' = LastCall("get_symmetries", name, r.raised, registry, r, None)
    /\ UNCHANGED <<groups, kind, stiffness, moduli, crystal, origin, symmetries, registry>>

\* list_symmetries()
ListSymmetries ==
    /\ kind = "orientations"
    /\ last' = LastCall("list_symmetries", None, "none", registry,
                        Returned(list_symmetries(registry)), None)
    /\ UNCHANGED <<groups, kind, stiffness, moduli, crystal, origin, symmetries, registry>>

\* The names groups are constructed and looked up under.
SymmetryNames == {"cubic", "identity", "trigonal", "tetragonal"}

NextRegistry ==
    \/ \E name \in SymmetryNames : \E qsymm \in {_qident, _qmono, _qortho} :
           Construct(name, qsymm)
    \/ \E name \in SymmetryNames \cup {"hexagonal"} : GetSymmetries(name)
    \/ ListSymmetries

SpecRegistry == InitImported /\ [][NextRegistry]_vars

\* sym.to_fundamental_region(q), sym the instance registered under name:
\* the program's first call (the call changes no state, so that a later
\* call returns what a first call does).
ToFundamentalRegion(name, q) ==
    /\ kind = "orientations"
    /\ last.op = "import"
    /\ \E self \in {symmetries[_Registry_get(registry, name).val]} :
       \E r \in {to_fundamental_region(self, q)} :
           last' = LastCall("to_fundamental_region", [self |-> self, q |-> q], "none",
                            registry, Returned(r), None)
    /\ UNCHANGED <<groups, kind, stiffness, moduli, crystal, origin, symmetries, registry>>

\* sym.to_fundamental_region(qfr), qfr being what the call before returned
ToFundamentalRegionAgain ==
    /\ kind = "orientations"
    /\ last.op = "to_fundamental_region"
    /\ last.of = None
    /\ \E r \in {to_fundamental_region(last.arg.self, last.res.val)} :
           last' = LastCall("to_fundamental_region",
                            [self |-> last.arg.self, q |-> last.res.val], "none",
                            registry, Returned(r), last)
    /\ UNCHANGED <<groups, kind, stiffness, moduli, crystal, origin, symmetries, registry>>

\* Arrays of unit quaternions with rational entries, which every group's
\* field holds, (the second and the sixth tie under the monoclinic or the
\* orthorhombic group).
RationalQuats ==
    LET h == Half
        m == Neg(Half)
    IN  { <<<<Rat(3, 5), Rat(4, 5), Zero, Zero>>>>,
          <<<<h, h, h, h>>>>,
          <<<<Zero, Rat(-3, 5), Zero, Rat(4, 5)>>, <<Rat(-4, 5), Zero, Rat(3, 5), Zero>>>>,
          <<<<Rat(2, 3), Rat(2, 3), Rat(1, 3), Zero>>>>,
          <<<<Neg(One), Zero, Zero, Zero>>, <<h, m, h, m>>>>,
          <<<<Zero, Zero, Rat(3, 5), Rat(-4, 5)>>, <<Zero, One, Zero, Zero>>,
            <<Rat(2, 7), Rat(3, 7), Rat(6, 7), Zero>>>>,
          <<<<Rat(-1, 3), Rat(2, 3), Zero, Rat(2, 3)>>>>,
          <<<<Zero, Rat(3, 5), Rat(4, 5), Zero>>, <<Rat(4, 5), Zero, Zero, Rat(3, 5)>>>>,
          <<<<Rat(6, 7), Rat(-2, 7), Zero, Rat(3, 7)>>>>,
          <<<<Zero, Zero, Zero, Neg(One)>>, <<m, m, m, m>>>>,
          <<>> }

\* The arrays handed to the group registered under name: its own
\* quaternions, those of the groups with rational entries, and the
\* rational arrays, in the group's field.
QuatInputs(name) ==
    LET D == symmetries[_Registry_get(registry, name).val]._q.rad
    IN  {symmetries[_Registry_get(registry, name).val]._q}
            \cup {QuatArray(D, a.data) : a \in {_qident, _qmono, _qortho}}
            \cup {QuatArray(D, a) : a \in RationalQuats}

NextFundamental ==
    \/ \E k \in 1..Len(registry) : \E q \in QuatInputs(registry[k].key) :
           ToFundamentalRegion(registry[k].key, q)
    \/ ToFundamentalRegionAgain

SpecFundamental == InitImported /\ [][NextFundamental]_vars

----------------------------------------------------------------------------
(* The programs that construct slip groups and slip crystals *)

\* SlipGroup objects a program constructs for its slip crystals
MaxGroups == 2

\* SlipGroup(n, d, get_symmetries(name)); the program keeps the group.
NewSlipGroup(n, d, name) ==
    /\ kind = "orientations"
    /\ \E g \in {SlipGroup(n, d, symmetries[_Registry_get(registry, name).val])} :
           /\ groups' = Append(groups, g)
           /\ last' = LastCall("SlipGroup", [n |-> n, d |-> d, csym |-> name], "none",
                               groups, Returned(g), None)
    /\ UNCHANGED <<kind, stiffness, moduli, crystal, origin, symmetries, registry>>

\* SlipCrystal([groups[i] for i in which], model)
NewSlipCrystal(which) ==
    /\ kind = "orientations"
    /\ \E r \in {SlipCrystal([k \in 1..Len(which) |-> groups[which[k]]], "model")} :
           last' = LastCall("SlipCrystal", which, r.raised, groups, r, None)
    /\ UNCHANGED <<kind, stiffness, moduli, crystal, origin, symmetries, registry, groups>>

\* The number (a + b sqrt F)/d of an array in Q(sqrt F) as a number of
\* Q(sqrt 2, sqrt 3), for F = 1, 2, 3, 6.
ToSurd(F, x) ==
    CASE F = 2 -> Surd(x[1], x[2], 0, 0, x[3])
      [] F = 3 -> Surd(x[1], 0, x[2], 0, x[3])
      [] F = 6 -> Surd(x[1], 0, 0, x[2], x[3])
      [] OTHER -> Surd(x[1], 0, 0, 0, x[3])

\* SlipCrystal.schmid_5: the symmdev components of the Schmid tensors, whose
\* entries are in the field of the Schmid tensors of the groups.
schmid_5(self) ==
    Once(LAMBDA mats : PartOf("SymmDev", SymmDev_to_components(mats), "symmdev").data,
         Eager([k \in 1..Len(self._schmid_td._matrices) |->
                   [r \in 1..3 |-> [c \in 1..3 |->
                       ToSurd(self.groups[1]._schmid.rad,
                              self._schmid_td._matrices[k][r][c])]]],
               Len(self._schmid_td._matrices)))

\* SlipCrystal.resolved_shear_stress(cstress), cstress an (npts, 3, 3) array:
\* SymmDevSystem(cstress).symmdev @ self.schmid_5.T, an (npts, nslip) array
resolved_shear_stress(self, cstress) ==
    LET Dot(u, v) == SAdd(SAdd(SAdd(SMul(u[1], v[1]), SMul(u[2], v[2])),
                               SAdd(SMul(u[3], v[3]), SMul(u[4], v[4]))),
                          SMul(u[5], v[5]))
    IN  Once(LAMBDA s5 :
               Once(LAMBDA p5 :
                      Eager([p \in 1..Len(s5) |->
                                Eager([k \in 1..Len(p5) |-> Dot(s5[p], p5[k])], Len(p5))],
                            Len(s5)),
                    schmid_5(self)),
             PartOf("SymmDev", SymmDev_to_components(cstress), "symmdev").data)

\* Crystal stresses at one point: uniaxial, hydrostatic, a shear, and one
\* with all entries nonzero.
StressInputs ==
    LET S(m) == <<[i \in 1..3 |-> [j \in 1..3 |-> SRat(m[i][j], 1)]]>>
    IN  {S(<< <<1, 0, 0>>, <<0, 0, 0>>, <<0, 0, 0>> >>),
         S(<< <<1, 0, 0>>, <<0, 1, 0>>, <<0, 0, 1>> >>),
         S(<< <<0, 1, 0>>, <<1, 0, 0>>, <<0, 0, 0>> >>),
         S(<< <<1, 2, 3>>, <<2, 2, 4>>, <<3, 4, 3>> >>)}

\* sx.resolved_shear_stress(cstress) on the slip crystal just constructed
ResolvedShearStress(cstress) ==
    /\ kind = "orientations"
    /\ last.op = "SlipCrystal"
    /\ last.raised = "none"
    /\ \E r \in {resolved_shear_stress(last.res.val, cstress)} :
           last' = LastCall("resolved_shear_stress", [cstress |-> cstress], "none", groups,
                            Returned(r), last.res.val)
    /\ UNCHANGED <<kind, stiffness, moduli, crystal, origin, symmetries, registry, groups>>

\* Slip normals and directions.
SlipVectors ==
    {<<Num(1), Num(1), Num(1)>>, <<Num(-1), Num(1), Num(0)>>, <<Num(1), Num(1), Num(0)>>,
     <<Num(-1), Num(1), Num(1)>>, <<Num(1), Num(0), Num(0)>>, <<Num(0), Num(1), Num(0)>>,
     <<Num(0), Num(0), Num(1)>>, <<Num(1), Num(1), Num(-2)>>, <<Num(1), Num(2), Num(-3)>>}

\* The generators of a slip group of the group registered under name: a
\* normal and a direction whose dyad has a norm in the field of the group,
\* or any if the rotations of the group are rational.
SlipGenerators(name) ==
    LET D == symmetries[_Registry_get(registry, name).val]._q.rad
        Norm2(n, d) == MulIn(D, Add(Add(MulIn(D, n[1], n[1]), MulIn(D, n[2], n[2])),
                                    MulIn(D, n[3], n[3])),
                             Add(Add(MulIn(D, d[1], d[1]), MulIn(D, d[2], d[2])),
                                 MulIn(D, d[3], d[3])))
    IN  {nd \in SlipVectors \X SlipVectors :
            /\ nd[1] # nd[2]
            /\ name = "hexagonal" => Radicand(Norm2(nd[1], nd[2])) \in {1, D}}

\* The programs that construct one slip group.
NextSlipGroup ==
    /\ groups = <<>>
    /\ \E k \in 1..Len(registry) : \E nd \in SlipGenerators(registry[k].key) :
           NewSlipGroup(nd[1], nd[2], registry[k].key)

SpecSlipGroup == InitImported /\ [][NextSlipGroup]_vars

\* The groups of the slip crystals: one slip system under the identity, the
\* two cubic families of the tests, and one orthorhombic family.
CrystalGenerators ==
    {<<<<Num(1), Num(0), Num(0)>>, <<Num(0), Num(1), Num(0)>>, "identity">>,
     <<<<Num(1), Num(1), Num(1)>>, <<Num(-1), Num(1), Num(0)>>, "cubic">>,
     <<<<Num(1), Num(1), Num(0)>>, <<Num(-1), Num(1), Num(1)>>, "cubic">>,
     <<<<Num(1), Num(1), Num(0)>>, <<Num(-1), Num(1), Num(0)>>, "orthorhombic">>}

\* The lists of one to MaxGroups of the groups constructed
GroupLists ==
    UNION {[1..k -> 1..Len(groups)] : k \in 1..MaxGroups}

NextSlipCrystal ==
    \/ /\ Len(groups) < MaxGroups
       /\ \E c \in CrystalGenerators : NewSlipGroup(c[1], c[2], c[3])
    \/ \E which \in GroupLists : NewSlipCrystal(which)
    \/ \E cstress \in StressInputs : ResolvedShearStress(cstress)

SpecSlipCrystal == InitImported /\ [][NextSlipCrystal]_vars

----------------------------------------------------------------------------
(* The programs that call a function of utils on an input *)

\* Rows of an array handed to unique_vectors
MaxRows == 4

\* The arrays of up to n rows out of a set of rows of k entries.
ArraysOf(rows, k, n) ==
    {[nc |-> k, data |-> d] : d \in UNION {[1..m -> rows] : m \in 0..n}}

\* The inputs of unique_vectors: arrays of the rows of the test with the
\* default tolerance, and arrays with entries 3/10 apart with a tolerance
\* of 1/2.
UniqueInputs ==
    LET exact == {<<Num(1), Num(2)>>, <<Rat(16, 5), Num(1)>>, <<Num(0), Num(4)>>,
                  <<Num(0), Num(2)>>}
        near == {<<Num(1), Num(0)>>, <<Rat(13, 10), Num(0)>>, <<Rat(8, 5), Num(0)>>,
                 <<Num(1), Num(1)>>}
    IN  {[f |-> "unique_vectors", a |-> a, tol |-> DEFAULT_TOL,
          return_index |-> ri, return_inverse |-> rv] :
            a \in ArraysOf(exact, 2, MaxRows), ri \in BOOLEAN, rv \in BOOLEAN}
        \cup {[f |-> "unique_vectors", a |-> a, tol |-> Half,
               return_index |-> ri, return_inverse |-> rv] :
                 a \in ArraysOf(near, 2, MaxRows - 1), ri \in BOOLEAN, rv \in BOOLEAN}

\* The program holds its input and has called nothing.
InitUtils(inputs) ==
    /\ kind = "utils"
    /\ stiffness = NoObject
    /\ moduli = NoObject
    /\ crystal = NoObject
    /\ origin \in inputs
    /\ symmetries = <<>>
    /\ registry = <<>>
    /\ groups = <<>>
    /\ last = LastCall("start", None, "none", None, None, None)

\* unique_vectors(a, tol, return_index, return_inverse) on the input
UniqueVectors ==
    /\ kind = "utils"
    /\ last.op = "start"
    /\ origin.f = "unique_vectors"
    /\ \E r \in {unique_vectors(origin.a, origin.tol, origin.return_index,
                                origin.return_inverse)} :
           last' = LastCall("unique_vectors", origin, r.raised, None, r, None)
    /\ UNCHANGED <<kind, stiffness, moduli, crystal, origin, symmetries, registry, groups>>

SpecUnique == InitUtils(UniqueInputs) /\ [][UniqueVectors]_vars

----------------------------------------------------------------------------
(* Programs that call the static method SingleCrystal._change_basis on a   *)
(* single matrix or a batch of matrices and a batch of rotations.          *)

\* The quarter turns in turn, beginning after the s-th.
Rotations(n, s) == Array(3, Stack(LAMBDA i : Rotation(i + s), n))

BasisInputs ==
    {[mat |-> m, rot |-> r] :
        m \in {Array(2, <<Strain(k)>>) : k \in 1..MaxBatch}
                 \cup {Array(3, Stack(Strain, n)) : n \in 1..MaxBatch},
        r \in {None} \cup {Rotations(n, s) : n \in 1..MaxBatch, s \in 0..2}}

\* SingleCrystal._change_basis(mat, rot) on the input
ChangeBasisOf ==
    /\ kind = "utils"
    /\ last.op = "start"
    /\ \E r \in {_change_basis(origin.mat, origin.rot)} :
           last' = LastCall("_change_basis", origin, r.raised, None, r, None)
    /\ UNCHANGED <<kind, stiffness, moduli, crystal, origin, symmetries, registry, groups>>

SpecBasis == InitUtils(BasisInputs) /\ [][ChangeBasisOf]_vars

----------------------------------------------------------------------------
(* Programs that call SlipGroup._unique_ss, which reads nothing of the     *)
(* group, on an array of dyads.                                            *)

MaxImages == 3

\* A dyad with the entries x and 1/2 off the diagonal and z on it.
DedupDyad(x, z) == << <<Zero, x, Zero>>, <<Half, Zero, Zero>>, <<Zero, Zero, z>> >>

\* Dyads that are equal, apart by 5e-9, apart by 5e-6 in an entry near 1 or
\* in an entry near 0, far apart, and their negations.
DedupDyads ==
    {DedupDyad(One, Zero), Negated(DedupDyad(One, Zero)),
     DedupDyad(Rat(199999, 200000), Zero), Negated(DedupDyad(Rat(199999, 200000), Zero)),
     DedupDyad(Rat(199999999, 200000000), Zero),
     DedupDyad(One, Rat(1, 200000)),
     DedupDyad(Half, Zero)}

DedupInputs ==
    {[ss |-> a] : a \in UNION {[1..n -> DedupDyads] : n \in 2..MaxImages}}

\* self._unique_ss(ss) on the input
UniqueSS ==
    /\ kind = "utils"
    /\ last.op = "start"
    /\ \E r \in {_unique_ss(origin.ss)} :
           last' = LastCall("_unique_ss", origin, "none", None, Returned(r), None)
    /\ UNCHANGED <<kind, stiffness, moduli, crystal, origin, symmetries, registry, groups>>

SpecDedup == InitUtils(DedupInputs) /\ [][UniqueSS]_vars

----------------------------------------------------------------------------
(* Programs that construct a slip model and the arrays of the state and of *)
(* the resolved shear stress at 1 .. MaxPoints points, assign gammadot_max *)
(* and call gamma_dots and state_derivative.  The program's objects are    *)
(* the fields of `crystal`; `origin` keeps them as they were constructed.  *)

MaxPoints == 2

\* Reference rates and rate dependences with gammadot_max / gamma_dot_0 the
\* square of a rational where m is 1/2.
SlipParams ==
    {[gamma_dot_0 |-> g0m[1], m |-> g0m[2], H |-> One, H_d |-> Half, A |-> One, A_d |-> Half,
      q12 |-> Rat(6, 5)] : g0m \in {<<One, One>>, <<Rat(1, 4), Half>>, <<One, Half>>}}

MaxRates == {NoMax, Float(One), Float(Num(4))}

\* Rows of stresses, of hardnesses and of backstresses for two slip systems.
StressRows == {<<Num(2), Num(-3)>>, <<Half, Zero>>}
HardnessRows == {<<One, Two>>, <<Two, Half>>}
BackstressRows == {<<Num(3), Num(-4)>>, <<Zero, Half>>}

StateArrays(cls, n) ==
    CASE cls = "AF_SingleHardness" -> [1..n -> {One, Two}]
      [] cls = "AF_ZeroBackStress" -> [1..n -> HardnessRows]
      [] cls = "ArmstrongFrederick" ->
             [1..n -> {g \o chi : g \in {<<One, Two>>}, chi \in BackstressRows}]

SlipModelInputs ==
    UNION {{[model |-> SlipModel(cls, params), state_var |-> sv, rss |-> rss] :
               params \in SlipParams,
               sv \in StateArrays(cls, n),
               rss \in [1..n -> StressRows]} :
           cls \in {"AF_SingleHardness", "AF_ZeroBackStress", "ArmstrongFrederick"},
           n \in 1..MaxPoints}

InitSlipModel ==
    /\ kind = "slipmodel"
    /\ stiffness = NoObject
    /\ moduli = NoObject
    /\ origin \in SlipModelInputs
    /\ crystal = origin
    /\ symmetries = <<>>
    /\ registry = <<>>
    /\ groups = <<>>
    /\ last = LastCall("construct", None, "none", None, None, None)

\* model.gammadot_max = v
SetGammadotMax(v) ==
    /\ kind = "slipmodel"
    /\ crystal.model._gammadot_max # v
    /\ crystal' = [crystal EXCEPT !.model = set_gammadot_max(crystal.model, v)]
    /\ last' = LastCall("gammadot_max", v, "none", crystal, None, None)
    /\ UNCHANGED <<kind, stiffness, moduli, origin, symmetries, registry, groups>>

\* model.gamma_dots(state_var, rss)
GammaDots ==
    /\ kind = "slipmodel"
    /\ \E r \in {gamma_dots(crystal.model, crystal.state_var, crystal.rss)} :
           /\ crystal' = [model |-> r.self, state_var |-> r.state_var, rss |-> r.other]
           /\ last' = LastCall("gamma_dots", None, "none", crystal, Returned(r.val), None)
    /\ UNCHANGED <<kind, stiffness, moduli, origin, symmetries, registry, groups>>

\* model.state_derivative(state_var, gamdot), gamdot what gamma_dots has just
\* returned
StateDerivative ==
    /\ kind = "slipmodel"
    /\ last.op = "gamma_dots"
    /\ \E r \in {state_derivative(crystal.model, crystal.state_var, last.res.val)} :
           /\ crystal' = [model |-> r.self, state_var |-> r.state_var, rss |-> crystal.rss]
           /\ last' = LastCall("state_derivative", [gamdot |-> last.res.val], "none", crystal,
                               Returned(r.val), [gamdot |-> r.other])
    /\ UNCHANGED <<kind, stiffness, moduli, origin, symmetries, registry, groups>>

NextSlipModel ==
    \/ \E v \in MaxRates : SetGammadotMax(v)
    \/ GammaDots
    \/ StateDerivative

SpecSlipModel == InitSlipModel /\ [][NextSlipModel]_vars

----------------------------------------------------------------------------
(* Programs that build tensors of a component system: Sys(matrices) and    *)
(* from_parts of that tensor's parts, or from_parts of given arrays.       *)

MaxTensors == 2

\* The matrices of the batches: entries n/2, neither symmetric nor skew.
TensorMatrices ==
    LET M(m) == [i \in 1..3 |-> [j \in 1..3 |-> SRat(m[i][j], 2)]]
    IN  {M(<< <<2, 4, 6>>, <<8, 10, 12>>, <<14, 16, 20>> >>),
         M(<< <<0, 1, -2>>, <<6, 4, 0>>, <<2, 2, 2>> >>),
         M(<< <<4, -2, 0>>, <<-3, 4, 10>>, <<14, 0, -6>> >>)}

PartNames(Sys) == IF Sys = "SymmDev" THEN {"symmdev", "skew", "sph"} ELSE {"symm", "skew"}

NoParts == [symm |-> None, symmdev |-> None, skew |-> None, sph |-> None]

\* The arrays given for a part of width w: 1-dimensional of length w and of
\* length w + 1, 2-dimensional of one and of two rows of width w and of one
\* row of width w - 1, 3-dimensional of shape (1, 1, w); or the part is
\* not given.
PartArrays(w) ==
    LET Row(k) == [j \in 1..k |-> SRat(j, 1)]
    IN  {None, Array(1, Row(w)), Array(1, Row(w + 1)), Array(2, <<Row(w)>>),
         Array(2, <<Row(w), Row(w)>>), Array(2, <<Row(w - 1)>>), Array(3, << <<Row(w)>> >>)}

SphArrays == {None, Array(1, <<SRat(3, 1)>>), Array(1, <<SRat(3, 1), SRat(1, 2)>>)}

TensorInputs ==
    {[f |-> "Sys", Sys |-> S, matrices |-> m] :
        S \in Systems, m \in UNION {[1..n -> TensorMatrices] : n \in 1..MaxTensors}}
    \cup {[f |-> "from_parts", Sys |-> S,
           parts |-> [NoParts EXCEPT !.symm = sy, !.skew = sk]] :
            S \in {"Voigt", "Mandel"}, sy \in PartArrays(6), sk \in PartArrays(3)}
    \cup {[f |-> "from_parts", Sys |-> "SymmDev",
           parts |-> [NoParts EXCEPT !.symmdev = sy, !.skew = sk, !.sph = sp]] :
            sy \in PartArrays(5), sk \in PartArrays(3), sp \in SphArrays}

\* ms = Sys(matrices), and its components
NewSystem ==
    /\ kind = "utils"
    /\ last.op = "start"
    /\ origin.f = "Sys"
    /\ \E r \in {BaseSystem(origin.matrices)} :
           last' = LastCall("Sys", origin, r.raised, None,
                            IF r.raised # "none" THEN r
                            ELSE Returned([cls |-> origin.Sys, _matrices |-> r.val._matrices,
                                           _components |->
                                               to_components(origin.Sys, r.val._matrices)]),
                            None)
    /\ UNCHANGED <<kind, stiffness, moduli, crystal, origin, symmetries, registry, groups>>

\* Sys.from_parts(name=ms.name, ...) for the parts of ms that are named
FromPartsOf(names) ==
    /\ kind = "utils"
    /\ last.op = "Sys"
    /\ last.raised = "none"
    /\ names # {}
    /\ names \subseteq PartNames(origin.Sys)
    /\ \E parts \in {[n \in DOMAIN NoParts |->
                         IF n \in names THEN PartOf(origin.Sys, last.res.val._components, n)
                         ELSE None]} :
         \E r \in {from_parts(origin.Sys, parts)} :
           last' = LastCall("from_parts", [Sys |-> origin.Sys, parts |-> parts], r.raised,
                            None, r, last)
    /\ UNCHANGED <<kind, stiffness, moduli, crystal, origin, symmetries, registry, groups>>

\* Sys.from_parts(...) of the given arrays
FromParts ==
    /\ kind = "utils"
    /\ last.op = "start"
    /\ origin.f = "from_parts"
    /\ \E r \in {from_parts(origin.Sys, origin.parts)} :
           last' = LastCall("from_parts", [Sys |-> origin.Sys, parts |-> origin.parts],
                            r.raised, None, r, None)
    /\ UNCHANGED <<kind, stiffness, moduli, crystal, origin, symmetries, registry, groups>>

NextTensor ==
    \/ NewSystem
    \/ \E names \in SUBSET {"symm", "symmdev", "skew", "sph"} : FromPartsOf(names)
    \/ FromParts

SpecTensor == InitUtils(TensorInputs) /\ [][NextTensor]_vars

----------------------------------------------------------------------------
(* Programs that load a material from a database and read it.              *)

\* The coefficients a record may hold, and what it holds for each
ModuliValues ==
    [c11 |-> One, c12 |-> Zero, c13 |-> Rat(1, 8), c33 |-> Two, c44 |-> Rat(1, 4), c66 |-> Half,
     E |-> One, nu |-> Rat(1, 4), cij |-> DiagUpper(One)]

\* The sets of keys of the moduli of the records, by declared symmetry:
\* all that the symmetry needs, and some with one or all missing.
ModuliKeys ==
    {<<"cubic", ks>> : ks \in {{"c11", "c12", "c44"}, {"c11", "c12"}, {"c11", "c44"}, {}}}
    \cup {<<"hexagonal", ks>> : ks \in {{"c11", "c12", "c13", "c44", "c66"},
                                        {"c11", "c12", "c13", "c33", "c44", "c66"},
                                        {"c11", "c12", "c44", "c66"},
                                        {"c11", "c12", "c13", "c44"}}}
    \cup {<<"isotropic", ks>> : ks \in {{"c11", "c12"}, {"E", "nu"}, {"c11"}, {"E"}, {"c12", "nu"}}}
    \cup {<<"triclinic", ks>> : ks \in {{"cij"}, {"c11", "c12", "c44"}, {}}}
    \cup {<<"tetragonal", ks>> : ks \in {{"cij"}, {"c11", "c12", "c13"}}}

\* The databases: one material of process linear_elasticity, and the same
\* under a process that has no loader.
Databases ==
    {[f |-> "MaterialsDataBase",
      processes |-> [p \in {"linear_elasticity", "plasticity"} |->
          [n \in {"matl"} |->
              [name |-> "matl", symmetry |-> sk[1], units |-> DEFAULT_UNITS, system |-> s.v,
               reference |-> "no-ref", moduli |-> [k \in sk[2] |-> ModuliValues[k]]]]]] :
        sk \in ModuliKeys, s \in SystemNames}

\* db.get_material(process, name)
GetMaterial(process, name) ==
    /\ kind = "utils"
    /\ last.op = "start"
    /\ origin.f = "MaterialsDataBase"
    /\ \E r \in {get_material(origin.processes, process, name)} :
           last' = LastCall("get_material", [process |-> process, name |-> name], r.raised,
                            None, r, None)
    /\ UNCHANGED <<kind, stiffness, moduli, crystal, origin, symmetries, registry, groups>>

\* matl.cij of the material loaded
ReadCij ==
    /\ kind = "utils"
    /\ last.op = "get_material"
    /\ last.raised = "none"
    /\ \E r \in {LinearElasticMaterial_cij(last.res.val)} :
           last' = LastCall("cij", last.arg, r.raised, None, r, last)
    /\ UNCHANGED <<kind, stiffness, moduli, crystal, origin, symmetries, registry, groups>>

\* matl.single_crystal of the material loaded
ReadSingleCrystal ==
    /\ kind = "utils"
    /\ last.op = "get_material"
    /\ last.raised = "none"
    /\ \E r \in {LinearElasticMaterial_single_crystal(last.res.val)} :
           last' = LastCall("single_crystal", last.arg, r.raised, None, r, last)
    /\ UNCHANGED <<kind, stiffness, moduli, crystal, origin, symmetries, registry, groups>>

NextMaterials ==
    \/ \E process \in {"linear_elasticity", "plasticity", "thermal"}, name \in {"matl", "other"} :
           GetMaterial(process, name)
    \/ ReadCij
    \/ ReadSingleCrystal

SpecMaterials == InitUtils(Databases) /\ [][NextMaterials]_vars

----------------------------------------------------------------------------
(* The conversion table as documented: the factors out of VOIGT_GAMMA are
   given, every other conversion is a quotient of two of them *)

FromGamma(Y) ==
    CASE Y = VOIGT_GAMMA -> _Scales(One, One, One)
      [] Y = VOIGT_EPSILON -> _Scales(Two, One, Two)
      [] Y = MANDEL -> _Scales(_s2, _s2, Two)

Factors(X, Y) ==
    _Scales(Div(FromGamma(Y).up_right, FromGamma(X).up_right),
            Div(FromGamma(Y).low_left, FromGamma(X).low_left),
            Div(FromGamma(Y).low_right, FromGamma(X).low_right))

BlockFactor(X, Y, i, j) ==
    IF i \in 1..3 /\ j \in 4..6 THEN Factors(X, Y).up_right
    ELSE IF i \in 4..6 /\ j \in 1..3 THEN Factors(X, Y).low_left
    ELSE IF i \in 4..6 /\ j \in 4..6 THEN Factors(X, Y).low_right
    ELSE One

Converted(mat, X, Y) ==
    LET At(i, j) == Mul(mat[i][j], BlockFactor(X, Y, i, j))
    IN  Mat6(At)

\* An assignment of a system that returned, on an object whose matrix was in
\* system X and is now in system Y.
Reassigned(X, Y) ==
    /\ last.op = "system"
    /\ last.raised = "none"
    /\ last.pre.stiffness.system = X
    /\ stiffness.system = Y

----------------------------------------------------------------------------
(* StiffnessMatrix: the block factors of a system assignment *)

\* C1: assigning system Y to a matrix in system X (X # Y) leaves the
\* upper-left block alone and multiplies the upper-right, lower-left and
\* lower-right blocks by the factors of the table for (X, Y); the table gives
\* (1/sqrt(2), sqrt(2), 1) for VOIGT_EPSILON -> MANDEL.
C1_BlockFactors ==
    /\ Factors(VOIGT_EPSILON, MANDEL) = _Scales(Div(One, _s2), _s2, One)
    /\ \A X, Y \in MatrixComponentSystem :
           (X # Y /\ Reassigned(X, Y)) =>
               \A i, j \in 1..6 :
                   stiffness.matrix[i][j]
                       = Mul(last.pre.stiffness.matrix[i][j], BlockFactor(X, Y, i, j))

\* A matrix with every entry nonzero has gone from VOIGT_EPSILON to VOIGT_GAMMA.
C1_Witness ==
    /\ kind = "matrix"
    /\ Reassigned(VOIGT_EPSILON, VOIGT_GAMMA)
    /\ \A i, j \in 1..6 : last.pre.stiffness.matrix[i][j] # Zero

\* C2: whatever systems were assigned on the way, the matrix is the
\* construction matrix converted directly from the construction system to
\* the current system, and is the construction matrix itself whenever the
\* current system is the construction system (the units being those of
\* construction).
C2_PathIndependent ==
    stiffness.units = origin.world.stiffness.units =>
        /\ stiffness.matrix
               = Converted(origin.world.stiffness.matrix,
                           origin.world.stiffness.system, stiffness.system)
        /\ stiffness.system = origin.world.stiffness.system
               => stiffness.matrix = origin.world.stiffness.matrix

\* A matrix with every entry nonzero has left its construction system and
\* has just come back to it.
C2_Witness ==
    /\ kind = "matrix"
    /\ stiffness.system = origin.world.stiffness.system
    /\ stiffness.units = origin.world.stiffness.units
    /\ last.op = "system"
    /\ last.pre.stiffness.system # stiffness.system
    /\ \A i, j \in 1..6 : stiffness.matrix[i][j] # Zero

----------------------------------------------------------------------------
(* The handlers *)

\* C3: a Cubic made by from_K_Gd_Gs(K, Gd, Gs, system) reads K, Gd and Gs
\* back as given, isotropic_G as 0.6 Gs + 0.4 Gd and zener_A as Gs / Gd, in
\* the system of construction and after any assignments of system.
C3_CubicModuliReadBack ==
    (kind = "moduli" /\ origin.ctor = "Cubic.from_K_Gd_Gs") =>
        /\ Cubic_K(moduli) = origin.args.K
        /\ Cubic_Gd(moduli) = origin.args.Gd
        /\ Cubic_Gs(moduli) = origin.args.Gs
        /\ Cubic_isotropic_G(moduli)
               = Add(Mul(Rat(6, 10), origin.args.Gs), Mul(Rat(4, 10), origin.args.Gd))
        /\ Cubic_zener_A(moduli) = Div(origin.args.Gs, origin.args.Gd)

\* A Cubic made in MANDEL from distinct K, Gd, Gs has been taken to
\* VOIGT_GAMMA from another system.
C3_Witness ==
    /\ kind = "moduli"
    /\ origin.ctor = "Cubic.from_K_Gd_Gs"
    /\ origin.args.system = MANDEL
    /\ origin.args.Gd # origin.args.Gs
    /\ \E X \in MatrixComponentSystem \ {VOIGT_GAMMA} : Reassigned(X, VOIGT_GAMMA)
    /\ moduli.system = VOIGT_GAMMA

\* The 6x6 identity tensor in each system.
IdentityIn(system) ==
    LET g == IF system = VOIGT_GAMMA THEN Half ELSE One
        At(i, j) == IF i # j THEN Zero ELSE IF i <= 3 THEN One ELSE g
    IN  Mat6(At)

\* The constructions whose moduli are those of the identity tensor in the
\* system they are given in.
IdentityModuli ==
    LET a == origin.args
        g == IF a.system = VOIGT_GAMMA THEN Half ELSE One
    IN  CASE origin.ctor = "Isotropic" -> a.c11 = One /\ a.c12 = Zero
          [] origin.ctor = "Isotropic.from_K_G" -> a.K = Rat(1, 3) /\ a.G = Half
          [] origin.ctor = "Cubic" -> a.c11 = One /\ a.c12 = Zero /\ a.c44 = g
          [] origin.ctor = "Cubic.from_K_Gd_Gs" ->
                 a.K = Rat(1, 3) /\ a.Gd = Half /\ a.Gs = Half
          [] origin.ctor = "Hexagonal" ->
                 /\ a.c11 = One /\ a.c12 = Zero /\ a.c13 = Zero
                 /\ a.c33 = One /\ a.c44 = g
          [] origin.ctor = "Triclinic" -> a.cij = DiagUpper(g)
          [] OTHER -> FALSE

BlockOf(k) ==
    LET p == _UT_INDICES[k]
    IN  IF p[2] <= 3 THEN "UL" ELSE IF p[1] <= 3 THEN "UR" ELSE "LR"

Unchanged21(c, c0) == {k \in 1..21 : c[k] = c0[k]}

----------------------------------------------------------------------------
(* SingleCrystal: moduli and units *)

\* The moduli given in system X, expressed in system Y.
MinimalModuli(symm, cij, X, Y) ==
    LET f == IF X = Y THEN _Scales(One, One, One) ELSE Factors(X, Y)
        Of(k) == CASE BlockOf(k) = "UL" -> cij[k]
                   [] BlockOf(k) = "UR" -> Mul(cij[k], f.up_right)
                   [] BlockOf(k) = "LR" -> Mul(cij[k], f.low_right)
    IN  CASE symm = "isotropic" -> cij
          [] symm = "cubic" -> <<cij[1], cij[2], Mul(cij[3], f.low_right)>>
          [] symm = "hexagonal" ->
                 <<cij[1], cij[2], cij[3], cij[4], Mul(cij[5], f.low_right)>>
          [] symm = "triclinic" -> [k \in 1..21 |-> Of(k)]

\* C6: cij_in and cij of a SingleCrystal are the moduli given to the
\* constructor and input_system is the system given to it, whatever
\* output_system is assigned afterwards; cij_out is the minimal moduli in the
\* current output system: (c11, c12) as given for an isotropic crystal, c44
\* doubled from VOIGT_GAMMA to VOIGT_EPSILON for a cubic one, c44 halved from
\* VOIGT_EPSILON to VOIGT_GAMMA for a hexagonal one.
C6_CrystalModuli ==
    kind = "crystal" =>
        LET a == origin.args
            insys == component_system(a.input_system).val
        IN  /\ Crystal_cij_in(Now) = a.cij
            /\ Crystal_cij(Now) = a.cij
            /\ Crystal_input_system(Now) = insys
            /\ Crystal_cij_out(Now)
                   = MinimalModuli(a.symm, a.cij, insys, Crystal_output_system(Now))

\* C7: assigning "MPa" to the output_units of a SingleCrystal in "GPa"
\* multiplies every entry of its stiffness by 1000, and output_units then
\* reads "MPa".
C7_OutputUnitsRescale ==
    (/\ kind = "crystal"
     /\ last.op = "units"
     /\ last.arg = "MPa"
     /\ Crystal_output_units(last.pre) = "GPa") =>
        /\ Crystal_output_units(Now) = "MPa"
        /\ \A i, j \in 1..6 :
               Crystal_stiffness(Now)[i][j]
                   = Mul(Num(1000), Crystal_stiffness(last.pre)[i][j])

----------------------------------------------------------------------------
(* Assignments of a value that is no component system *)

\* The values a setter recognizes: the three members, and for a crystal
\* their names as well.
Recognized(v) ==
    \/ v \in MatrixComponentSystem
    \/ kind = "crystal" /\ v \in SystemNames

\* C10: assigning a value that is not a recognized component system to
\* StiffnessMatrix.system, to a handler's system or to
\* SingleCrystal.output_system raises an error and leaves the system tags
\* of crystal, handler and matrix, the matrix entries and the cached moduli
\* as they were.
C10_RejectedAssignment ==
    (last.op = "system" /\ ~Recognized(last.arg)) =>
        /\ last.raised # "none"
        /\ Now = last.pre

----------------------------------------------------------------------------
(* SingleCrystal: stiffness and compliance applied to strains *)

\* C8: for an isotropic, cubic or hexagonal crystal with an invertible
\* stiffness, in each output system, apply_compliance of what
\* apply_stiffness returned for the strains eps, with the same rotations,
\* returns eps: for a single tensor, for a batch, with and without rotations.
C8_RoundTrip ==
    (/\ last.op = "apply_compliance"
     /\ last.arg.rmat = last.of.rmat
     /\ Crystal_compliance(Now).raised = "none") =>
        /\ last.raised = "none"
        /\ last.res.val = _to_3d(last.of.eps)

\* C9: in VOIGT_GAMMA apply_stiffness multiplies by the stiffness the
\* 6-vector of each tensor of the batch with its three shear components
\* (the last three) doubled and its other components as they are; in the
\* other output systems it multiplies the 6-vectors as they are.
C9_ShearDoubled ==
    (last.op = "apply_stiffness" /\ last.raised = "none") =>
        \A k \in 1..Len(last.res.symm) : \A c \in 1..6 :
            last.res.scaled[k][c]
                = IF Crystal_output_system(Now) = VOIGT_GAMMA /\ c > 3
                  THEN Mul(Two, last.res.symm[k][c])
                  ELSE last.res.symm[k][c]

----------------------------------------------------------------------------
(* Change of basis *)

\* (R M R^T)[r][c], entry by entry.
Conjugated(R, M, r, c) ==
    LET T(a, b) == Mul(Mul(R[r][a], M[a][b]), R[c][b])
        S(a) == Add(Add(T(a, 1), T(a, 2)), T(a, 3))
    IN  Add(Add(S(1), S(2)), S(3))

\* The matrices and the rotations of the last call, for the calls that
\* change basis.
BasisMatrices ==
    CASE last.op = "_change_basis" -> last.arg.mat
      [] last.op = "apply_stiffness" -> _to_3d(last.arg.eps)
      [] last.op = "apply_compliance" -> _to_3d(last.arg.sig)

BasisRotations == IF last.op = "_change_basis" THEN last.arg.rot ELSE last.arg.rmat

BasisCall ==
    /\ last.op \in {"_change_basis", "apply_stiffness", "apply_compliance"}
    /\ BasisRotations # None

\* C11: a change of basis of n matrices with m rotations, in _change_basis,
\* apply_stiffness and apply_compliance, raises an error and returns nothing
\* when n # m; when n = m, _change_basis returns R_i M_i R_i^T for each i.
C11_BasisLengths ==
    BasisCall =>
        IF Len(BasisMatrices.data) # Len(BasisRotations.data)
        THEN last.raised = "ValueError" /\ last.res.val = None
        ELSE /\ last.raised = "none"
             /\ last.op = "_change_basis" =>
                    \A i \in 1..Len(last.arg.mat.data) : \A r, c \in 1..3 :
                        last.res.val.data[i][r][c]
                            = Conjugated(last.arg.rot.data[i], last.arg.mat.data[i], r, c)

\* apply_compliance has been handed one rotation more than stresses.
C11_Witness ==
    /\ BasisCall
    /\ last.op = "apply_compliance"
    /\ Len(last.arg.rmat.data) = Len(last.arg.sig.data) + 1
    /\ last.raised = "ValueError"

----------------------------------------------------------------------------
(* Fundamental regions and the registry of symmetry groups *)

QuatIdentity == <<One, Zero, Zero, Zero>>

\* A call of to_fundamental_region on one of the module's own groups.
FundamentalCall ==
    /\ last.op = "to_fundamental_region"
    /\ \E k \in 1..Len(Imported) : last.arg.self = Imported[k]

\* C12: for each of the five groups the module constructs,
\* to_fundamental_region of the group's own quaternions returns as many
\* quaternions as the group has, each of them [1, 0, 0, 0].
C12_OwnQuatsToIdentity ==
    (FundamentalCall /\ last.arg.q = last.arg.self._q) =>
        /\ last.raised = "none"
        /\ Len(last.res.val.data) = nsymm(last.arg.self)
        /\ \A i \in 1..Len(last.res.val.data) : last.res.val.data[i] = QuatIdentity

C12_Witness ==
    /\ FundamentalCall
    /\ last.arg.self._name = "cubic"
    /\ last.arg.q = _qcubic
    /\ Len(last.res.val.data) = 24
    /\ last.res.val.data[24] = QuatIdentity

\* q[i] times the k-th element of the group, as multiply gives it.
Equivalent(self, qi, k) == multiply(qi, QuatArray(self._q.rad, <<self._q.data[k]>>)).data[1]

\* |scalar part of x| < |scalar part of y| in Q(sqrt D)
SmallerScalar(D, x, y) == SignIn(D, Sub(AbsIn(D, y[1]), AbsIn(D, x[1]))) = 1

\* C13: for an array q of unit quaternions and one of the module's groups,
\* every quaternion to_fundamental_region returns has a scalar part >= 0
\* and is, up to sign, q[i] times the first group element whose product has
\* the largest |scalar part|; and to_fundamental_region of what
\* to_fundamental_region returned is that array again.
C13_Idempotent ==
    FundamentalCall =>
        LET self == last.arg.self
            D == self._q.rad
            q == last.arg.q.data
            qfr == last.res.val.data
        IN  /\ last.raised = "none"
            /\ Len(qfr) = Len(q)
            /\ \A i \in 1..Len(q) :
                   /\ SignIn(D, qfr[i][1]) >= 0
                   /\ \E j \in 1..nsymm(self) :
                          /\ \A k \in 1..nsymm(self) :
                                 /\ ~SmallerScalar(D, Equivalent(self, q[i], j),
                                                   Equivalent(self, q[i], k))
                                 /\ k < j => SmallerScalar(D, Equivalent(self, q[i], k),
                                                           Equivalent(self, q[i], j))
                          /\ \/ qfr[i] = Equivalent(self, q[i], j)
                             \/ qfr[i] = [c \in 1..4 |-> Neg(Equivalent(self, q[i], j)[c])]
            /\ last.of # None => last.res.val = last.arg.q

\* The second of two calls, on an array the first call changed and in which
\* two group elements give the same largest |scalar part|.
C13_Witness ==
    /\ FundamentalCall
    /\ last.of # None
    /\ last.of.arg.q # last.arg.q
    /\ last.res.val = last.arg.q
    /\ \E i \in 1..Len(last.of.arg.q.data) : \E j, k \in 1..nsymm(last.arg.self) :
           /\ j # k
           /\ ~SmallerScalar(last.arg.self._q.rad,
                             Equivalent(last.arg.self, last.of.arg.q.data[i], j),
                             Equivalent(last.arg.self, last.of.arg.q.data[i], k))
           /\ ~SmallerScalar(last.arg.self._q.rad,
                             Equivalent(last.arg.self, last.of.arg.q.data[i], k),
                             Equivalent(last.arg.self, last.of.arg.q.data[i], j))
           /\ last.arg.q.data[i] = Equivalent(last.arg.self, last.of.arg.q.data[i], j)

\* The instance most recently constructed with the name, one having been.
Latest(name) ==
    CHOOSE i \in 1..Len(symmetries) :
        /\ symmetries[i]._name = name
        /\ \A j \in (i + 1)..Len(symmetries) : symmetries[j]._name # name

Keys(reg) == {reg[k].key : k \in 1..Len(reg)}

\* C14: get_symmetries(name) returns the instance most recently constructed
\* with that name, list_symmetries() holds every name an instance was ever
\* constructed with, no step removes a name from the registry, and after
\* the import alone the names are exactly identity, monoclinic,
\* orthorhombic, hexagonal and cubic, with 1, 2, 4, 12 and 24 elements.
C14_Registry ==
    /\ [](/\ (/\ last.op = "get_symmetries"
              /\ \E i \in 1..Len(symmetries) : symmetries[i]._name = last.arg)
                 => (last.raised = "none" /\ last.res.val = Latest(last.arg))
          /\ last.op = "list_symmetries"
                 => \A i \in 1..Len(symmetries) :
                        \E k \in 1..Len(last.res.val) : last.res.val[k] = symmetries[i]._name
          /\ last.op = "import"
                 => /\ Keys(registry) = {"identity", "monoclinic", "orthorhombic",
                                         "hexagonal", "cubic"}
                    /\ Len(registry) = 5
                    /\ \A k \in 1..5 :
                           nsymm(symmetries[_Registry_get(registry,
                               <<"identity", "monoclinic", "orthorhombic", "hexagonal",
                                 "cubic">>[k]).val]) = <<1, 2, 4, 12, 24>>[k])
    /\ [][Keys(registry) \subseteq Keys(registry')]_vars

\* get_symmetries('cubic') after two constructions under that name returns
\* the second, the module's own cubic group being no longer registered.
C14_Witness ==
    /\ last.op = "get_symmetries"
    /\ last.arg = "cubic"
    /\ Len(symmetries) = 7
    /\ symmetries[6]._name = "cubic"
    /\ symmetries[7]._name = "cubic"
    /\ symmetries[6]._q # symmetries[7]._q
    /\ last.res.val = 7
    /\ Len(registry) = 5

----------------------------------------------------------------------------
(* Slip groups and slip crystals *)

\* The image R (d n^T) R^T of the generator dyad under the rotation R, over
\* its norm: entry (j, l), in the field F of the Schmid tensors.
ImageOfDyad(D, F, R, n, d, j, l) ==
    LET Dyad(a, b) == MulIn(D, d[a], n[b])
        RD(a, b) == Add(Add(MulIn(D, R[a][1], Dyad(1, b)), MulIn(D, R[a][2], Dyad(2, b))),
                        MulIn(D, R[a][3], Dyad(3, b)))
        RDRt(a, b) == Add(Add(MulIn(D, RD(a, 1), R[b][1]), MulIn(D, RD(a, 2), R[b][2])),
                          MulIn(D, RD(a, 3), R[b][3]))
        nn == Add(Add(MulIn(D, n[1], n[1]), MulIn(D, n[2], n[2])), MulIn(D, n[3], n[3]))
        dd == Add(Add(MulIn(D, d[1], d[1]), MulIn(D, d[2], d[2])), MulIn(D, d[3], d[3]))
    IN  DivIn(F, RDRt(j, l), SqrtIn(MulIn(D, nn, dd)))

\* The slip group the last step constructed from a normal, a direction and
\* the name of one of the module's symmetry groups.
GroupCall(n, d, name) ==
    /\ last.op = "SlipGroup"
    /\ last.arg = [n |-> n, d |-> d, csym |-> name]

\* C15: in every SlipGroup no two retained Schmid tensors are equal or each
\* other's negation, and every image of the generator dyad under a rotation
\* of the symmetry group is, up to sign, a retained tensor; under the cubic
\* group the generators (normal [1,1,1], direction [-1,1,0]) and (normal
\* [1,1,0], direction [-1,1,1]) retain 12 tensors each, and under the
\* identity group (normal [1,0,0], direction [0,1,0]) retains 1.
C15_UniqueUpToSign ==
    /\ last.op = "SlipGroup" =>
           LET g == last.res.val
               T == g._schmid.data
               R == rmats(g.csym).data
           IN  /\ last.raised = "none"
               /\ \A i, j \in 1..Len(T) :
                      i # j => (T[i] # T[j] /\ T[i] # Negated(T[j]))
               /\ \A k \in 1..Len(R) : \E i \in 1..Len(T) : \E sign \in {One, Neg(One)} :
                      \A j, l \in 1..3 :
                          MulIn(g._schmid.rad, sign, T[i][j][l])
                              = ImageOfDyad(g.csym._q.rad, g._schmid.rad, R[k], g.n, g.d, j, l)
    /\ GroupCall(<<Num(1), Num(1), Num(1)>>, <<Num(-1), Num(1), Num(0)>>, "cubic")
           => Len(last.res.val._schmid.data) = 12
    /\ GroupCall(<<Num(1), Num(1), Num(0)>>, <<Num(-1), Num(1), Num(1)>>, "cubic")
           => Len(last.res.val._schmid.data) = 12
    /\ GroupCall(<<Num(1), Num(0), Num(0)>>, <<Num(0), Num(1), Num(0)>>, "identity")
           => Len(last.res.val._schmid.data) = 1

\* The {111}<-110> group of the cubic symmetry: 24 images, 12 retained.
C15_Witness ==
    /\ GroupCall(<<Num(1), Num(1), Num(1)>>, <<Num(-1), Num(1), Num(0)>>, "cubic")
    /\ nsymm(last.res.val.csym) = 24
    /\ Len(last.res.val._schmid.data) = 12
    /\ last.res.val._schmid.data[1][1][1] = <<0, -1, 6>>

\* The Schmid arrays of the groups a SlipCrystal call was handed, in list
\* order.
ListedSchmid == [k \in 1..Len(last.arg) |-> last.pre[last.arg[k]]._schmid.data]

RECURSIVE SumOfLengths(_, _)
SumOfLengths(arrs, k) == IF k = 0 THEN 0 ELSE SumOfLengths(arrs, k - 1) + Len(arrs[k])

\* C16: a SlipCrystal built from a list of k >= 1 slip groups has the Schmid
\* tensors of the groups stacked along the slip-system axis, in list order:
\* schmid has shape (N, 3, 3) and num_slipsys is N, the sum of the lengths of
\* the groups.
C16_SchmidStacked ==
    last.op = "SlipCrystal" =>
        /\ last.raised = "none"
        /\ num_slipsys(last.res.val) = SumOfLengths(ListedSchmid, Len(ListedSchmid))
        /\ \A i \in 1..num_slipsys(last.res.val) :
               /\ Len(SlipCrystal_schmid(last.res.val)[i]) = 3
               /\ \A r \in 1..3 : Len(SlipCrystal_schmid(last.res.val)[i][r]) = 3
        /\ SlipCrystal_schmid(last.res.val) = vstack(ListedSchmid).val

----------------------------------------------------------------------------
(* unique_vectors *)

\* Two rows are duplicates within tol: no entry differs by more than tol.
Duplicates(r, s, tol) ==
    \A j \in 1..Len(r) :
        /\ ~Greater(Sub(r[j], s[j]), tol)
        /\ ~Greater(Sub(s[j], r[j]), tol)

\* What the call returned: u, and index and inverse where asked for.
UniqueU == IF last.arg.return_index \/ last.arg.return_inverse
           THEN last.res.val[1] ELSE last.res.val
UniqueIndex == last.res.val[2]
UniqueInverse == last.res.val[IF last.arg.return_index THEN 3 ELSE 2]

\* C17: unique_vectors(a, tol) returns the rows of a with the duplicates
\* removed (no two rows of u are duplicates within tol, every row of a is
\* the duplicate of a row of u), in the lexicographic order of their
\* per-column ranks; with return_index u is a[index]; with return_inverse
\* u[inverse] reproduces a row for row; and for [[1,2],[3.2,1],[0,4],[1,2]]
\* the result is [[0,4],[1,2],[3.2,1]].
C17_UniqueVectors ==
    last.op = "unique_vectors" =>
        LET a == last.arg.a.data
            tol == last.arg.tol
            u == UniqueU.data
        IN  /\ last.raised = "none"
            /\ \A p, q \in 1..Len(u) : p # q => ~Duplicates(u[p], u[q], tol)
            /\ \A i \in 1..Len(a) : \E p \in 1..Len(u) : Duplicates(a[i], u[p], tol)
            /\ \A p \in 1..Len(u) : \E i \in 1..Len(a) : u[p] = a[i]
            /\ \A p, q \in 1..Len(u) :
                   p < q => \E i, k \in 1..Len(a) :
                                /\ u[p] = a[i]
                                /\ u[q] = a[k]
                                /\ LexLess(_to_ranks(last.arg.a, tol)[i],
                                           _to_ranks(last.arg.a, tol)[k], 1)
            /\ last.arg.return_index =>
                   /\ Len(UniqueIndex) = Len(u)
                   /\ \A p \in 1..Len(u) : u[p] = a[UniqueIndex[p]]
            /\ last.arg.return_inverse =>
                   /\ Len(UniqueInverse) = Len(a)
                   /\ \A i \in 1..Len(a) : Duplicates(u[UniqueInverse[i]], a[i], tol)
            /\ a = << <<Num(1), Num(2)>>, <<Rat(16, 5), Num(1)>>, <<Num(0), Num(4)>>,
                      <<Num(1), Num(2)>> >>
                   => u = << <<Num(0), Num(4)>>, <<Num(1), Num(2)>>, <<Rat(16, 5), Num(1)>> >>

----------------------------------------------------------------------------
(* from_parts of the parts of a tensor *)

\* The names of the parts given to the latest from_parts
Given(parts) == {n \in DOMAIN parts : parts[n] # None}

\* The matrices from_parts builds from one of the parts alone
Alone(Sys, parts, n) ==
    from_parts(Sys, [m \in DOMAIN parts |-> IF m = n THEN parts[n] ELSE None]).val._matrices

\* The sum, matrix by matrix and entry by entry, of the matrices built
\* from each of the given parts alone
SumOfAlone(Sys, parts) ==
    LET order == <<"symm", "symmdev", "skew", "sph">>
        RECURSIVE Entry(_, _, _, _)
        Entry(k, i, r, c) ==
            IF k = 0 THEN SZero
            ELSE IF parts[order[k]] = None THEN Entry(k - 1, i, r, c)
            ELSE SAdd(Entry(k - 1, i, r, c), Alone(Sys, parts, order[k])[i][r][c])
        n == CHOOSE n \in {Len(parts[p].data) : p \in Given(parts)} : TRUE
    IN  [i \in 1..n |-> [r \in 1..3 |-> [c \in 1..3 |-> Entry(4, i, r, c)]]]

IsSymmetric(m) == \A r, c \in 1..3 : m[r][c] = m[c][r]
IsSkew(m) == \A r, c \in 1..3 : m[r][c] = SNeg(m[c][r])
IsSpherical(m) == \A r, c \in 1..3 : m[r][c] = IF r = c THEN m[1][1] ELSE SZero
IsTraceFree(m) == SAdd(SAdd(m[1][1], m[2][2]), m[3][3]) = SZero

\* C18: for each of the three systems and each batch of matrices, from_parts
\* of parts of the tensor of the batch builds a tensor; from all of the
\* parts its matrices are the batch; from symm alone they are symmetric, from
\* skew alone skew, from sph alone multiples of the identity, from symmdev
\* alone symmetric with trace zero; and from several parts they are the sum
\* of the matrices built from each part alone.
C18_FromPartsOfParts ==
    (last.op = "from_parts" /\ last.of # None) =>
        /\ last.raised = "none"
        /\ LET Sys == last.arg.Sys
               parts == last.arg.parts
               built == last.res.val._matrices
               matrices == last.of.res.val._matrices
           IN  /\ Len(built) = Len(matrices)
               /\ Given(parts) = PartNames(Sys) => built = matrices
               /\ Given(parts) = {"symm"} => \A i \in 1..Len(built) : IsSymmetric(built[i])
               /\ Given(parts) = {"skew"} => \A i \in 1..Len(built) : IsSkew(built[i])
               /\ Given(parts) = {"sph"} => \A i \in 1..Len(built) : IsSpherical(built[i])
               /\ Given(parts) = {"symmdev"} =>
                      \A i \in 1..Len(built) : IsSymmetric(built[i]) /\ IsTraceFree(built[i])
               /\ built = SumOfAlone(Sys, parts)

C18_Witness ==
    /\ last.op = "from_parts"
    /\ last.of # None
    /\ last.arg.Sys = "SymmDev"
    /\ Given(last.arg.parts) = {"symmdev", "skew", "sph"}
    /\ Len(last.of.res.val._matrices) = MaxTensors
    /\ last.raised = "none"
    /\ last.res.val._matrices = last.of.res.val._matrices
    /\ ~ IsSymmetric(last.res.val._matrices[1])
    /\ ~ IsTraceFree(last.res.val._matrices[1])

----------------------------------------------------------------------------
(* from_parts of arrays of other shapes *)

\* The parts of a required width that are given, and the width
FixedGiven(parts) == Given(parts) \ {"sph"}
WidthOf(name) == CASE name = "symm" -> 6 [] name = "symmdev" -> 5 [] name = "skew" -> 3

\* The width of the array: the length of a 1-dimensional array, the second
\* dimension of another; its rows: one for a 1-dimensional array of a
\* part of a required width.
WidthGiven(part) == IF part.ndim = 1 THEN Len(part.data) ELSE Shape(part)[2]
RowsGiven(name, part) == IF part.ndim = 1 /\ name # "sph" THEN 1 ELSE Len(part.data)

FromPartsGiven == last.op = "from_parts" /\ last.of = None

----------------------------------------------------------------------------
(* Records that lack a coefficient *)

\* The record lacks a coefficient its declared symmetry requires
LacksCoefficient(entry) ==
    LET has == DOMAIN entry.moduli
    IN  CASE entry.symmetry = "cubic" -> ~ ({"c11", "c12", "c44"} \subseteq has)
          [] entry.symmetry = "hexagonal" ->
               /\ ~ ({"c11", "c12", "c13", "c33", "c44"} \subseteq has)
               /\ ~ ({"c11", "c12", "c13", "c44", "c66"} \subseteq has)
          [] entry.symmetry = "isotropic" ->
               ~ ({"c11", "c12"} \subseteq has) /\ ~ ({"E", "nu"} \subseteq has)
          [] entry.symmetry = "triclinic" -> "cij" \notin has
          [] OTHER -> FALSE

\* The record get_material was asked for, when the database has it
Asked == origin.processes[last.arg.process][last.arg.name]
Found ==
    /\ last.arg.process \in DOMAIN origin.processes
    /\ last.arg.process \in loader_registry
    /\ last.arg.name \in DOMAIN origin.processes[last.arg.process]

\* C20: get_material of a record that lacks a coefficient required by its
\* declared symmetry raises an error; no loader is returned for a later
\* read of cij or single_crystal to fail.
C20_MissingAtLoad ==
    (last.op = "get_material" /\ Found /\ LacksCoefficient(Asked)) =>
        last.raised # "none" /\ last.res.val = None

\* What the code does instead: the loader is returned whatever the record
\* holds, and the read of cij or single_crystal raises KeyError, or
\* UnboundLocalError for an isotropic record.
C20_DeferredToRead ==
    /\ (last.op = "get_material" /\ Found) => last.raised = "none"
    /\ (last.op \in {"cij", "single_crystal"} /\ LacksCoefficient(Asked)) =>
           last.raised = IF Asked.symmetry = "isotropic" THEN "UnboundLocalError"
                         ELSE "KeyError"

----------------------------------------------------------------------------
(* The shape of a stiffness matrix *)

SymmetricBlock(m, rows) == \A i, j \in rows : m[i][j] = m[j][i]

\* C21: in every state of a StiffnessMatrix, constructed in any system and
\* assigned any systems and units, the matrix is symmetric if the system is
\* VOIGT_GAMMA or MANDEL; if it is VOIGT_EPSILON the lower-left block is one
\* half of the transpose of the upper-right block and the two diagonal
\* blocks are symmetric.
C21_BlockSymmetry ==
    kind = "matrix" =>
        IF stiffness.system = VOIGT_EPSILON
        THEN /\ \A i \in 4..6, j \in 1..3 :
                    stiffness.matrix[i][j] = Mul(Half, stiffness.matrix[j][i])
             /\ SymmetricBlock(stiffness.matrix, 1..3)
             /\ SymmetricBlock(stiffness.matrix, 4..6)
        ELSE SymmetricBlock(stiffness.matrix, 1..6)

C21_Witness ==
    /\ kind = "matrix"
    /\ origin.args.system = MANDEL
    /\ last.op = "system"
    /\ last.pre.stiffness.system = VOIGT_GAMMA
    /\ stiffness.system = VOIGT_EPSILON
    /\ stiffness.units # origin.args.units
    /\ stiffness.matrix[1][4] # Zero
    /\ stiffness.matrix[4][1] = Mul(Half, stiffness.matrix[1][4])
    /\ ~ SymmetricBlock(stiffness.matrix, 1..6)

----------------------------------------------------------------------------
(* A handler and its matrix *)

----------------------------------------------------------------------------
(* Units and system of a stiffness matrix *)

\* C23: an assignment of units to a StiffnessMatrix multiplies every entry
\* by the one factor of the conversion and leaves the system as it was; an
\* assignment of a system leaves the units as they were; and from every
\* state, units then system gives the matrix, system and units that system
\* then units gives.
C23_UnitsAndSystem ==
    kind = "matrix" =>
        /\ last.op = "units" =>
               /\ stiffness.system = last.pre.stiffness.system
               /\ stiffness.units = last.arg
               /\ \A i, j \in 1..6 :
                      stiffness.matrix[i][j]
                          = Mul(last.pre.stiffness.matrix[i][j],
                                Div(UnitSize(last.pre.stiffness.units), UnitSize(last.arg)))
        /\ last.op = "system" => stiffness.units = last.pre.stiffness.units
        /\ \A u \in Units, v \in MatrixComponentSystem :
               StiffnessSetSystem(StiffnessSetUnits(stiffness, u), v).obj
                   = StiffnessSetUnits(StiffnessSetSystem(stiffness, v).obj, u)

C23_Witness ==
    /\ kind = "matrix"
    /\ last.op = "units"
    /\ last.pre.stiffness.units = "GPa"
    /\ stiffness.units = "MPa"
    /\ stiffness.system = VOIGT_EPSILON
    /\ origin.args.system = VOIGT_GAMMA
    /\ \A i, j \in 1..6 : stiffness.matrix[i][j] # Zero
    /\ stiffness.matrix[1][4] = Mul(Num(1000), last.pre.stiffness.matrix[1][4])
    /\ StiffnessSetSystem(StiffnessSetUnits(stiffness, "GPa"), MANDEL).obj
           = StiffnessSetUnits(StiffnessSetSystem(stiffness, MANDEL).obj, "GPa")

----------------------------------------------------------------------------
(* The output system and what the crystal computes *)

\* The crystal as it is after sx.output_system = v
Reassigned_output(v) == Crystal_set_output_system(Now, v).obj

\* C24: what apply_stiffness returned for a strain and rotations is what it
\* returns for them after the output system of the crystal is assigned any
\* of the three systems; and so for apply_compliance and a stress.
C24_OutputIndependent ==
    /\ (last.op = "apply_stiffness" /\ last.raised = "none") =>
           \A v \in MatrixComponentSystem :
               apply_stiffness(Reassigned_output(v), last.arg.eps, last.arg.rmat).val
                   = last.res.val
    /\ (last.op = "apply_compliance" /\ last.raised = "none") =>
           \A v \in MatrixComponentSystem :
               apply_compliance(Reassigned_output(v), last.arg.sig, last.arg.rmat).val
                   = last.res.val

\* The same for the stresses alone.
C24_ComplianceIndependent ==
    (last.op = "apply_compliance" /\ last.raised = "none") =>
        \A v \in MatrixComponentSystem :
            apply_compliance(Reassigned_output(v), last.arg.sig, last.arg.rmat).val
                = last.res.val

\* The same for the strains, VOIGT_GAMMA left aside.
C24_StiffnessIndependentElsewhere ==
    (/\ last.op = "apply_stiffness"
     /\ last.raised = "none"
     /\ Crystal_output_system(Now) # VOIGT_GAMMA) =>
        \A v \in MatrixComponentSystem \ {VOIGT_GAMMA} :
            apply_stiffness(Reassigned_output(v), last.arg.eps, last.arg.rmat).val
                = last.res.val

----------------------------------------------------------------------------
(* A single matrix in a change of basis *)

\* _change_basis has been called with one (3, 3) matrix and a batch of
\* rotations.
SingleBasisCall ==
    /\ kind = "utils"
    /\ last.op = "_change_basis"
    /\ last.arg.mat.ndim = 2
    /\ last.arg.rot # None

\* The call returned R_i M R_i^T for each rotation R_i of the batch.
TurnedByEach ==
    /\ last.raised = "none"
    /\ Len(last.res.val.data) = Len(last.arg.rot.data)
    /\ \A i \in 1..Len(last.arg.rot.data) : \A r, c \in 1..3 :
           last.res.val.data[i][r][c]
               = Conjugated(last.arg.rot.data[i], last.arg.mat.data[1], r, c)

\* C25: _change_basis called with one unbatched 3x3 matrix M and a batch of
\* n rotations R_1 .. R_n returns the n matrices R_i M R_i^T, whatever n >= 1.
C25_SingleMatrix == SingleBasisCall => TurnedByEach

\* The same for the batches of three rotations alone, the other batches
\* being refused.
C25_SingleMatrixOfThree ==
    SingleBasisCall =>
        IF Len(last.arg.rot.data) = 3
        THEN TurnedByEach
        ELSE last.raised = "ValueError" /\ last.res.val = None

----------------------------------------------------------------------------
(* The tolerance of the Schmid tensors that are the same *)

\* Two (3, 3) arrays are equal or each other's negation, in every entry
\* within the absolute tolerance EPS.
SameWithinEPS(a, b) ==
    \/ \A r, c \in 1..3 : isclose(a[r][c], b[r][c], Zero, EPS)
    \/ \A r, c \in 1..3 : isclose(a[r][c], Negated(b)[r][c], Zero, EPS)

\* The j-th image is retained if and only if no earlier retained image is
\* the same within EPS.
RECURSIVE RetainedWithinEPS(_, _)
RetainedWithinEPS(ss, j) ==
    \A i \in 1..(j - 1) : ~(RetainedWithinEPS(ss, i) /\ SameWithinEPS(ss[i], ss[j]))

\* C26: _unique_ss keeps the first occurrences in the order of the images:
\* the j-th image is dropped if and only if some earlier retained image is
\* equal to it or to its negation in every entry within the absolute
\* tolerance 1e-8, with no relative term.
C26_DroppedWithinEPS ==
    last.op = "_unique_ss" =>
        last.res.val = Masked(last.arg.ss,
                              [j \in 1..Len(last.arg.ss) |-> RetainedWithinEPS(last.arg.ss, j)],
                              Len(last.arg.ss))

\* The same for the arrays whose images are nowhere apart by more than EPS
\* and less than a hundredth.
C26_DroppedWhenFarOrNear ==
    (/\ last.op = "_unique_ss"
     /\ \A i, j \in 1..Len(last.arg.ss) : \A r, c \in 1..3 : \A sign \in {One, Neg(One)} :
            \/ isclose(last.arg.ss[i][r][c], Mul(sign, last.arg.ss[j][r][c]), Zero, EPS)
            \/ ~isclose(last.arg.ss[i][r][c], Mul(sign, last.arg.ss[j][r][c]), Zero, Rat(1, 100))) =>
        last.res.val = Masked(last.arg.ss,
                              [j \in 1..Len(last.arg.ss) |-> RetainedWithinEPS(last.arg.ss, j)],
                              Len(last.arg.ss))

\* The retained tensors of a slip group have the Frobenius norm 1.
C26_UnitNorm ==
    last.op = "SlipGroup" =>
        \A i \in 1..Len(last.res.val._schmid.data) :
            SumSquares(last.res.val._schmid.rad, last.res.val._schmid.data[i]) = One

----------------------------------------------------------------------------
(* Rows that are unique within the tolerance *)

\* unique_vectors returned, the inverse among what it returned.
ReturnedInverse ==
    /\ last.op = "unique_vectors"
    /\ last.raised = "none"
    /\ last.arg.return_inverse

\* Any two rows returned differ by more than tol in some column.
RowsApart ==
    \A p, q \in 1..Len(UniqueU.data) :
        p # q => ~Duplicates(UniqueU.data[p], UniqueU.data[q], last.arg.tol)

\* Every row of the input differs from its representative u[inverse[i]] by
\* at most tol in every column.
RowsRepresented ==
    \A i \in 1..Len(last.arg.a.data) :
        Duplicates(last.arg.a.data[i], UniqueU.data[UniqueInverse[i]], last.arg.tol)

\* C27: of whatever array, the columns whose sorted values form a chain of
\* gaps of at most tol included, any two rows unique_vectors returns differ
\* by more than tol in at least one column, and every row of the input
\* differs from its representative u[inverse[i]] by at most tol in every
\* column.
C27_UniqueWithinTol == ReturnedInverse => (RowsApart /\ RowsRepresented)

\* The rows returned are apart, of whatever array.
C27_RowsApart == ReturnedInverse => RowsApart

\* The rows of the input are represented unless a column holds two values
\* that are more than tol apart and have the same rank.
C27_RepresentedUnlessChained ==
    (/\ ReturnedInverse
     /\ \A i, k \in 1..Len(last.arg.a.data) : \A j \in 1..last.arg.a.nc :
            _to_ranks(last.arg.a, last.arg.tol)[i][j] = _to_ranks(last.arg.a, last.arg.tol)[k][j]
                => Duplicates(<<last.arg.a.data[i][j]>>, <<last.arg.a.data[k][j]>>, last.arg.tol))
        => RowsRepresented

----------------------------------------------------------------------------
(* The resolved shear stress *)

\* The contraction sum_ij sigma_ij P_ij of a stress and a Schmid tensor of
\* the crystal, whose entries are in Q(sqrt F).
Contraction(F, sigma, P) ==
    LET T(i, j) == SMul(sigma[i][j], ToSurd(F, P[i][j]))
        S(i) == SAdd(SAdd(T(i, 1), T(i, 2)), T(i, 3))
    IN  SAdd(SAdd(S(1), S(2)), S(3))

\* C28: the symmdev components are taken in an orthonormal basis of the
\* symmetric trace-free matrices, so that resolved_shear_stress of a
\* symmetric stress is, for each point and each slip system, the contraction
\* sum_ij sigma_ij P_ij of the stress with the Schmid tensor.
C28_ResolvedIsContraction ==
    last.op = "resolved_shear_stress" =>
        \A p \in 1..Len(last.arg.cstress) : \A k \in 1..num_slipsys(last.of) :
            last.res.val[p][k]
                = Contraction(last.of.groups[1]._schmid.rad, last.arg.cstress[p],
                              SlipCrystal_schmid(last.of)[k])

\* The same for the stresses and Schmid tensors of which one has equal
\* diagonal entries.
C28_ContractionOffDiagonal ==
    last.op = "resolved_shear_stress" =>
        \A p \in 1..Len(last.arg.cstress) : \A k \in 1..num_slipsys(last.of) :
            (\/ \A i \in 1..3 : last.arg.cstress[p][i][i] = last.arg.cstress[p][1][1]
             \/ \A i \in 1..3 : SlipCrystal_schmid(last.of)[k][i][i] = Zero) =>
                last.res.val[p][k]
                    = Contraction(last.of.groups[1]._schmid.rad, last.arg.cstress[p],
                                  SlipCrystal_schmid(last.of)[k])

----------------------------------------------------------------------------
(* The moduli of a hexagonal record *)

\* single_crystal of a hexagonal record returned a crystal.
HexagonalCrystal ==
    /\ last.op = "single_crystal"
    /\ last.raised = "none"
    /\ Asked.symmetry = "hexagonal"

\* The stiffness matrix the hexagonal handler builds, in the system of the
\* record, from the sequence the crystal was handed.
HandedStiffness ==
    ModuliHandler("hexagonal", Crystal_cij(last.res.val),
                  Crystal_input_system(last.res.val)).stiffness.matrix

\* C29: the sequence the loader hands to SingleCrystal for a hexagonal
\* record is (c11, c12, c13, c33, c44) of the record, the order in which the
\* hexagonal handler takes them, and each of these coefficients is the
\* stiffness entry of its name.
C29_HexagonalOrder ==
    HexagonalCrystal =>
        /\ {"c11", "c12", "c13", "c33", "c44"} \subseteq DOMAIN Asked.moduli
        /\ Crystal_cij(last.res.val)
               = <<Asked.moduli.c11, Asked.moduli.c12, Asked.moduli.c13,
                   Asked.moduli.c33, Asked.moduli.c44>>
        /\ HandedStiffness[1][1] = Asked.moduli.c11
        /\ HandedStiffness[1][2] = Asked.moduli.c12
        /\ HandedStiffness[1][3] = Asked.moduli.c13
        /\ HandedStiffness[3][3] = Asked.moduli.c33
        /\ HandedStiffness[4][4] = Asked.moduli.c44

\* What the code does instead: the sequence is (c11, c12, c13, c44, c66) of
\* the record, c44 of the record becomes the entry c33 and c66 the entry c44.
C29_HandedAsListed ==
    HexagonalCrystal =>
        /\ Crystal_cij(last.res.val)
               = <<Asked.moduli.c11, Asked.moduli.c12, Asked.moduli.c13,
                   Asked.moduli.c44, Asked.moduli.c66>>
        /\ HandedStiffness[1][1] = Asked.moduli.c11
        /\ HandedStiffness[1][2] = Asked.moduli.c12
        /\ HandedStiffness[1][3] = Asked.moduli.c13
        /\ HandedStiffness[3][3] = Asked.moduli.c44
        /\ HandedStiffness[4][4] = Asked.moduli.c66

----------------------------------------------------------------------------
(* Slip rates *)

\* The driving stress and the hardness of slip system k at point p, for the
\* model and the arrays a call was made with.
DrivingStress(w, p, k) ==
    IF w.model.cls = "ArmstrongFrederick"
    THEN Sub(w.rss[p][k], w.state_var[p][Len(w.state_var[p]) \div 2 + k])
    ELSE w.rss[p][k]

HardnessOf(w, p, k) ==
    IF w.model.cls = "AF_SingleHardness" THEN w.state_var[p] ELSE w.state_var[p][k]

\* gamma_dot_0 |driving stress / hardness|^(1/m), without a cap
PowerLaw(w, p, k) ==
    Mul(w.model.params.gamma_dot_0,
        np_power(np_abs(Div(DrivingStress(w, p, k), HardnessOf(w, p, k))),
                 Div(One, w.model.params.m)))

\* The gammadot_max a call of gamma_dots read
MaxRead == gammadot_max(last.pre.model)._gammadot_max

\* C30: for each of the three models, every rate gamma_dots returns has the
\* sign of the driving stress (rss, or rss minus the backstress for
\* ArmstrongFrederick); where gammadot_max is set its magnitude is at most
\* gammadot_max, and where it is None (the default) the rate is
\* gamma_dot_0 |driving stress / hardness|^(1/m) with that sign;
\* gamma_dots and state_derivative leave the params of the model and the
\* arrays they were passed as they were.
C30_SlipRates ==
    /\ last.op = "gamma_dots" =>
           /\ Len(last.res.val) = Len(last.pre.rss)
           /\ \A p \in 1..Len(last.pre.rss) :
                  /\ Len(last.res.val[p]) = Len(last.pre.rss[p])
                  /\ \A k \in 1..Len(last.pre.rss[p]) :
                         /\ np_sign(last.res.val[p][k]) = np_sign(DrivingStress(last.pre, p, k))
                         /\ IF MaxRead.t = "float"
                            THEN ~Less(MaxRead.v, np_abs(last.res.val[p][k]))
                            ELSE last.res.val[p][k]
                                     = Mul(PowerLaw(last.pre, p, k),
                                           np_sign(DrivingStress(last.pre, p, k)))
    /\ last.op \in {"gamma_dots", "state_derivative"} =>
           /\ crystal.model.params = last.pre.model.params
           /\ crystal.state_var = last.pre.state_var
           /\ crystal.rss = last.pre.rss
    /\ last.op = "state_derivative" => last.of.gamdot = last.arg.gamdot

\* gamma_dots of an ArmstrongFrederick model with gammadot_max set has
\* returned a rate that the cap has cut, of the sign opposite to the
\* resolved shear stress.
C30_Witness ==
    /\ last.op = "gamma_dots"
    /\ last.pre.model.cls = "ArmstrongFrederick"
    /\ MaxRead.t = "float"
    /\ \E p \in 1..Len(last.pre.rss) : \E k \in 1..Len(last.pre.rss[p]) :
           /\ np_abs(last.res.val[p][k]) = MaxRead.v
           /\ Less(MaxRead.v, PowerLaw(last.pre, p, k))
           /\ np_sign(last.pre.rss[p][k]) = One
           /\ np_sign(last.res.val[p][k]) = Neg(One)

====
